---- MODULE Spec2Model ----
(***************************************************************************)
(* A model of the agentfs-opencode plugin: the session registry            *)
(* (src/src/agentfs/client.ts), the session lifecycle hook                 *)
(* (src/src/hooks/session.ts), the overlay mount controller                *)
(* (src/src/agentfs/mount.ts) and the tool-call tracker                    *)
(* (src/src/hooks/tool-tracking.ts).                                       *)
(*                                                                         *)
(* JavaScript is single-threaded with cooperative scheduling: an async     *)
(* function runs without interruption up to its next `await`, where any    *)
(* other ready continuation may run.  Every action below is one such       *)
(* uninterrupted stretch of one function.  The outcome of an external      *)
(* call (file system, AgentFS store, agentfs CLI) is a nondeterministic    *)
(* choice made in the step that resumes after the await.                   *)
(*                                                                         *)
(* Objects live in sequences used as heaps: a reference is an index, and   *)
(* 0 is `undefined`.                                                       *)
(***************************************************************************)
EXTENDS Integers, Sequences, FiniteSets, Bags, TLC

VARIABLES
    \* ---- src/src/agentfs/client.ts
    sessions,       \* the `sessions` Map: session id -> SessionContext reference
    heap,           \* the SessionContext objects ever allocated
    handles,        \* the AgentFS instances ever opened
    calls,          \* direct calls of the exported client functions, suspended at an await
    ncalls,         \* how many such calls were made
    db,             \* per session database: the tool_calls table
    \* ---- src/src/hooks/tool-tracking.ts
    config,         \* the AgentFSConfig the handlers were created with
    toolCallStarts, \* the `toolCallStarts` Map: call key -> start data
    promises,       \* the promises returned by tools.start(...).catch(...)
    ends,           \* after-handlers suspended at an await
    delivered,      \* hook deliveries so far: [begin, end] per call key
    endResult,      \* how the last completed after-handler of a key ended
    beforeRejected, \* call keys whose before-handler rejected to its caller
    \* ---- src/src/hooks/session.ts, src/src/agentfs/mount.ts
    initializingSessions, \* the `initializingSessions` Set
    handlers,       \* session event handlers suspended at an await
    mountProcesses, \* the `mountProcesses` Map: session id -> pid of the mount process
    cli,            \* per session id: mountOverlay calls and external programs run so far
    hostEvents,     \* session events delivered so far, per session id
    kv,             \* per session database: the key-value store (session metadata)
    alive,          \* the mount processes that are running: <<session id, pid>>
    rewrite         \* a path given to the path translation, and what it was turned into

clientVars == <<sessions, heap, handles, calls, ncalls, db>>
trackVars == <<config, toolCallStarts, promises, ends, delivered, endResult,
               beforeRejected>>
hookVars == <<initializingSessions, handlers, mountProcesses, cli, hostEvents, kv, alive,
              rewrite>>
vars == <<sessions, heap, handles, calls, ncalls, db, config, toolCallStarts, promises,
          ends, delivered, endResult, beforeRejected, initializingSessions, handlers,
          mountProcesses, cli, hostEvents, kv, alive, rewrite>>

(***************************************************************************)
(* Bounds of the model.                                                    *)
(***************************************************************************)
\* direct invocations of client functions in one behaviour
MaxCalls == 2

\* session.created / session.status and session.deleted events in one behaviour
MaxSessionBegins == 2
MaxSessionEnds == 1

\* begin (tool.execute.before) and end (tool.execute.after) deliveries in one behaviour
MaxBegins == 2
MaxEnds == 2

\* session ids
SessionIds == {"s1"}

\* call ids the host delivers, and the tool each call runs
CallIds == {"c1", "c2", "c3", "x1"}
ToolOf(c) == IF c = "x1" THEN "tools_list" ELSE "read_file"

\* the args the host passes for a call
ArgsOf(c) == c

Min(a, b) == IF a < b THEN a ELSE b

(***************************************************************************)
(* src/src/agentfs/client.ts                                               *)
(***************************************************************************)

\* The object createSessionContext builds: mounted false, no agent, no pid, no error.
NewContext(s) ==
    [sessionId |-> s, agent |-> 0,
     mount |-> [mounted |-> FALSE, pid |-> 0, error |-> ""]]

\* getSession(sessionId): the Map lookup, 0 for undefined (as for every id that
\* was never registered).
getSession(s) == IF s \in DOMAIN sessions THEN sessions[s] ELSE 0

\* An AgentFS instance as AgentFS.open returns it.
NewHandle(s) == [sid |-> s, open |-> TRUE, closes |-> 0, closed |-> FALSE]

\* agent.close() is invoked on handle h.
CloseInvoked(h) ==
    [handles EXCEPT ![h] = [@ EXCEPT !.open = FALSE, !.closes = @ + 1]]

\* agent.close() on handle h resolved: the database connection is closed.
CloseResolved(h) == [handles EXCEPT ![h] = [@ EXCEPT !.closed = TRUE]]

NewCall(op, s, pc, ret, ctx, agent) ==
    [op |-> op, sid |-> s, pc |-> pc, ret |-> ret, ctx |-> ctx, agent |-> agent,
     attempt |-> 0, delays |-> <<>>, settled |-> <<>>]

RemoveAt(seq, i) == SubSeq(seq, 1, i - 1) \o SubSeq(seq, i + 1, Len(seq))

\* A call that has returned or thrown leaves the set of suspended calls.
Finished(c) == c.pc \in {"returned", "threw"}
Started(c) == IF Finished(c) THEN calls ELSE Append(calls, c)
Resumed(i, c) == IF Finished(c) THEN RemoveAt(calls, i) ELSE [calls EXCEPT ![i] = c]

\* One more direct invocation of a client function.
Invoked ==
    /\ ncalls < MaxCalls
    /\ ncalls' = ncalls + 1

\* createSessionContext up to its first await: the lookup and the early return.
\* createSession awaits the promise createSessionContext returns.
CreateLookup(op, s) ==
    LET existing == sessions[s] IN
    IF existing # 0
    THEN NewCall(op, s, IF op = "createSession" THEN "ctxReady" ELSE "returned",
                 existing, 0, 0)
    ELSE NewCall(op, s, "mkdir", 0, 0, 0)

\* createSessionContext(config, s, projectPath) or createSession(...) is called.
InvokeCreate(op, s) ==
    /\ Invoked
    /\ calls' = Started(CreateLookup(op, s))
    /\ UNCHANGED <<sessions, heap, handles, db>>
    /\ UNCHANGED <<trackVars, hookVars>>

\* sessions.set(sessionId, context) at the end of createSessionContext.
RegisterContext(s, ref) == [sessions EXCEPT ![s] = ref]

\* createSessionContext resumes after `await mkdir(...)`: on success it builds the
\* context and stores it in the Map, whatever the Map holds by then.
MkdirDone(i) ==
    /\ i \in DOMAIN calls
    /\ calls[i].pc = "mkdir"
    /\ \E ok \in BOOLEAN :
        IF ok
        THEN /\ heap' = Append(heap, NewContext(calls[i].sid))
             /\ sessions' = RegisterContext(calls[i].sid, Len(heap) + 1)
             /\ calls' = Resumed(i, [calls[i] EXCEPT
                              !.ret = Len(heap) + 1,
                              !.pc = IF calls[i].op = "createSession"
                                     THEN "ctxReady" ELSE "returned"])
        ELSE /\ calls' = Resumed(i, [calls[i] EXCEPT !.pc = "threw"])
             /\ UNCHANGED <<sessions, heap>>
    /\ UNCHANGED <<handles, db, ncalls>>
    /\ UNCHANGED <<trackVars, hookVars>>

\* openDatabase(s) up to its first await.
OpenDatabasePrefix(c) ==
    LET context == sessions[c.sid] IN
    IF context = 0 THEN [c EXCEPT !.pc = "threw"]
    ELSE IF heap[context].agent # 0 THEN [c EXCEPT !.pc = "returned"]
    ELSE [c EXCEPT !.pc = "open", !.ctx = context]

\* openDatabase(s) is called directly.
InvokeOpenDatabase(s) ==
    /\ Invoked
    /\ calls' = Started(OpenDatabasePrefix(NewCall("openDatabase", s, "", 0, 0, 0)))
    /\ UNCHANGED <<sessions, heap, handles, db>>
    /\ UNCHANGED <<trackVars, hookVars>>

\* createSession resumes after `await createSessionContext(...)` and calls openDatabase.
CreateSessionOpen(i) ==
    /\ i \in DOMAIN calls
    /\ calls[i].pc = "ctxReady"
    /\ calls' = Resumed(i, OpenDatabasePrefix(calls[i]))
    /\ UNCHANGED <<sessions, heap, handles, db, ncalls>>
    /\ UNCHANGED <<trackVars, hookVars>>

\* openDatabase resumes after `await withRetry(() => AgentFS.open(...))`: the
\* whole retry loop as one step, which yields a handle when some attempt
\* succeeded and throws otherwise.  SpecRetry below takes the loop apart.
OpenDone(i) ==
    /\ i \in DOMAIN calls
    /\ calls[i].pc = "open"
    /\ \E ok \in BOOLEAN :
        IF ok
        THEN /\ handles' = Append(handles, NewHandle(calls[i].sid))
             /\ calls' = Resumed(i, [calls[i] EXCEPT !.agent = Len(handles) + 1,
                                                     !.pc = "pragma"])
        ELSE /\ calls' = Resumed(i, [calls[i] EXCEPT !.pc = "threw"])
             /\ UNCHANGED handles
    /\ UNCHANGED <<sessions, heap, db, ncalls>>
    /\ UNCHANGED <<trackVars, hookVars>>

\* openDatabase resumes after `await db.pragma(...)` and sets context.agent.
PragmaDone(i) ==
    /\ i \in DOMAIN calls
    /\ calls[i].pc = "pragma"
    /\ \E ok \in BOOLEAN :
        IF ok
        THEN /\ heap' = [heap EXCEPT ![calls[i].ctx].agent = calls[i].agent]
             /\ calls' = Resumed(i, [calls[i] EXCEPT !.pc = "returned"])
        ELSE /\ calls' = Resumed(i, [calls[i] EXCEPT !.pc = "threw"])
             /\ UNCHANGED heap
    /\ UNCHANGED <<sessions, handles, db, ncalls>>
    /\ UNCHANGED <<trackVars, hookVars>>

\* closeDatabase(s) is called: up to `await context.agent.close()`.
InvokeCloseDatabase(s) ==
    /\ Invoked
    /\ LET context == sessions[s] IN
       IF context = 0 \/ heap[context].agent = 0
       THEN UNCHANGED <<handles, calls>>
       ELSE /\ handles' = CloseInvoked(heap[context].agent)
            /\ calls' = Started(NewCall("closeDatabase", s, "close", 0, context,
                                        heap[context].agent))
    /\ UNCHANGED <<sessions, heap, db>>
    /\ UNCHANGED <<trackVars, hookVars>>

\* closeSession(s) is called: up to `await context.agent.close()`, or to the end
\* when the context has no agent.
InvokeCloseSession(s) ==
    /\ Invoked
    /\ LET context == sessions[s] IN
       IF context = 0
       THEN UNCHANGED <<sessions, handles, calls>>
       ELSE IF heap[context].agent = 0
       THEN /\ sessions' = [sessions EXCEPT ![s] = 0]
            /\ UNCHANGED <<handles, calls>>
       ELSE /\ handles' = CloseInvoked(heap[context].agent)
            /\ calls' = Started(NewCall("closeSession", s, "close", 0, context,
                                        heap[context].agent))
            /\ UNCHANGED sessions
    /\ UNCHANGED <<heap, db>>
    /\ UNCHANGED <<trackVars, hookVars>>

\* closeDatabase / closeSession resume after `await context.agent.close()`.
CloseDone(i) ==
    /\ i \in DOMAIN calls
    /\ calls[i].pc = "close"
    /\ \E ok \in BOOLEAN :
        IF ok
        THEN /\ calls' = Resumed(i, [calls[i] EXCEPT !.pc = "returned"])
             /\ handles' = CloseResolved(calls[i].agent)
             /\ IF calls[i].op = "closeDatabase"
                THEN /\ heap' = [heap EXCEPT ![calls[i].ctx].agent = 0]
                     /\ UNCHANGED sessions
                ELSE /\ sessions' = [sessions EXCEPT ![calls[i].sid] = 0]
                     /\ UNCHANGED heap
        ELSE /\ calls' = Resumed(i, [calls[i] EXCEPT !.pc = "threw"])
             /\ UNCHANGED <<sessions, heap, handles>>
    /\ UNCHANGED <<db, ncalls>>
    /\ UNCHANGED <<trackVars, hookVars>>

ClientInit ==
    /\ sessions = [s \in SessionIds |-> 0]
    /\ heap = <<>>
    /\ handles = <<>>
    /\ calls = <<>>
    /\ ncalls = 0
    /\ db = [s \in SessionIds |-> <<>>]

(***************************************************************************)
(* Tool outputs, as sequences of characters.                               *)
(***************************************************************************)
\* done
OutDone == <<"d", "o", "n", "e">>
\* Error: x
OutErrorText == <<"E", "r", "r", "o", "r", ":", " ", "x">>
\* no error
OutNoError == <<"n", "o", " ", "e", "r", "r", "o", "r">>
\* {"error":null}
OutJsonNull == <<"{", "\"", "e", "r", "r", "o", "r", "\"", ":", "n", "u", "l", "l", "}">>
\* {"error":"x"}
OutJsonError == <<"{", "\"", "e", "r", "r", "o", "r", "\"", ":", "\"", "x", "\"", "}">>

Outputs == {OutDone, OutErrorText, OutNoError, OutJsonNull, OutJsonError}

\* String.prototype.includes
Includes(str, sub) ==
    \E i \in 1..(Len(str) - Len(sub) + 1) : SubSeq(str, i, i + Len(sub) - 1) = sub

\* String.prototype.slice(0, n)
Slice(str, n) == SubSeq(str, 1, Min(Len(str), n))

\* String.prototype.startsWith
StartsWith(str, prefix) ==
    /\ Len(str) >= Len(prefix)
    /\ SubSeq(str, 1, Len(prefix)) = prefix

\* String.prototype.endsWith
EndsWith(str, suffix) ==
    /\ Len(str) >= Len(suffix)
    /\ SubSeq(str, Len(str) - Len(suffix) + 1, Len(str)) = suffix

(***************************************************************************)
(* src/src/hooks/tool-tracking.ts                                          *)
(***************************************************************************)
\* output.output.slice(0, 10000)
OutputLimit == 10000

TrackingPolicies ==
    [enabled : BOOLEAN, trackAll : BOOLEAN, excludeTools : {{}, {"tools_list"}}]

makeCallKey(sessionId, callId) == sessionId \o ":" \o callId

\* Two (sessionID, callID) pairs of a host whose ids contain ":": call "x:c" of
\* session "s1", and call "c" of a session "s1:x" that is not registered.
KeyPairs == {<<"s1", "x:c">>, <<"s1:x", "c">>}

Keys == {makeCallKey(s, c) : s \in SessionIds, c \in CallIds}
            \cup {makeCallKey(p[1], p[2]) : p \in KeyPairs}

\* A tracking policy that forgets the excludeTools list (a seeded fault).
shouldTrackToolIgnoringExcludes(cfg, toolName) ==
    cfg.toolTracking.enabled /\ cfg.toolTracking.trackAll

shouldTrackTool(cfg, toolName) ==
    IF ~cfg.toolTracking.enabled THEN FALSE
    ELSE IF toolName \in cfg.toolTracking.excludeTools THEN FALSE
    ELSE cfg.toolTracking.trackAll

\* const isError = output.output.includes("error") || output.output.includes("Error")
isError(output) ==
    \/ Includes(output, <<"e", "r", "r", "o", "r">>)
    \/ Includes(output, <<"E", "r", "r", "o", "r">>)

\* toolCallStarts.get(key) on a key that is not in the Map
NoStartData == [present |-> FALSE, args |-> "", pendingIdPromise |-> 0]

RECURSIVE SumOver(_, _)
SumOver(f, S) ==
    IF S = {} THEN 0
    ELSE LET x == CHOOSE y \in S : TRUE IN f[x] + SumOver(f, S \ {x})

Begins == SumOver([k \in Keys |-> delivered[k].begin], Keys)
Ends == SumOver([k \in Keys |-> delivered[k].end], Keys)

\* The tool_calls row tools.start(name, parameters) inserts.
PendingRow(name, parameters) ==
    [name |-> name, parameters |-> parameters, status |-> "pending", output |-> <<>>]

\* tools.success(id, {title, output, metadata}) / tools.error(id, message) on a row.
CompletedRow(row, failed, output) ==
    [row EXCEPT !.status = IF failed THEN "error" ELSE "success",
                !.output = IF failed THEN output ELSE Slice(output, OutputLimit)]

\* The row tools.record(name, startedAt, completedAt, parameters, result, error) inserts.
RecordedRow(name, parameters, failed, output) ==
    [name |-> name, parameters |-> parameters,
     status |-> IF failed THEN "error" ELSE "success",
     output |-> IF failed THEN output ELSE Slice(output, OutputLimit)]

\* The promise of session.agent.tools.start(tool, args).catch(...), not yet settled.
NewPromise(k, agent, tool, args) ==
    [state |-> "pending", value |-> 0, key |-> k, agent |-> agent,
     tool |-> tool, args |-> args]

Delivered(k, what) ==
    [delivered EXCEPT ![k] =
        IF what = "begin" THEN [@ EXCEPT !.begin = @ + 1] ELSE [@ EXCEPT !.end = @ + 1]]

\* toolCallStarts.set(key, {startTime, args, pendingIdPromise})
StartDataSet(k, args, pendingIdPromise) ==
    [toolCallStarts EXCEPT ![k] =
        [present |-> TRUE, args |-> args, pendingIdPromise |-> pendingIdPromise]]

\* An after-handler that leaves the entry in the Map (a seeded fault).
StartDataKept(k) == toolCallStarts

\* toolCallStarts.delete(key)
StartDataDelete(k) == [toolCallStarts EXCEPT ![k] = NoStartData]

\* The before-handler, for a tracked tool.  It does not await the promise of
\* tools.start().  Reading session.agent.tools when the session has no agent
\* throws a TypeError before the Map is written, and the handler rejects.
BeforeTracked(s, c) ==
    LET k == makeCallKey(s, c)
        session == getSession(s)
    IN  IF session = 0
        THEN /\ toolCallStarts' = StartDataSet(k, ArgsOf(c), 0)
             /\ UNCHANGED <<promises, beforeRejected>>
        ELSE IF heap[session].agent = 0
        THEN /\ beforeRejected' = beforeRejected \cup {k}
             /\ UNCHANGED <<toolCallStarts, promises>>
        ELSE /\ promises' = Append(promises,
                    NewPromise(k, heap[session].agent, ToolOf(c), ArgsOf(c)))
             /\ toolCallStarts' = StartDataSet(k, ArgsOf(c), Len(promises) + 1)
             /\ UNCHANGED beforeRejected

\* The handler createToolExecuteBeforeHandler(config) returns, delivered one
\* tool.execute.before event.
BeforeHandler(s, c) ==
    /\ delivered' = Delivered(makeCallKey(s, c), "begin")
    /\ IF shouldTrackTool(config, ToolOf(c))
       THEN BeforeTracked(s, c)
       ELSE UNCHANGED <<toolCallStarts, promises, beforeRejected>>
    /\ UNCHANGED <<config, ends, endResult>>
    /\ UNCHANGED <<clientVars, hookVars>>

\* tools.start() settles: the store inserts the pending row and the promise resolves
\* to its id, or the call fails and the .catch handler logs and resolves to -1.
StartSettle(p) ==
    /\ p \in DOMAIN promises
    /\ promises[p].state = "pending"
    /\ LET h == promises[p].agent
           sid == handles[h].sid
       IN \E ok \in {TRUE, FALSE} :
            IF ok /\ handles[h].open
            THEN /\ db' = [db EXCEPT ![sid] =
                        Append(@, PendingRow(promises[p].tool, promises[p].args))]
                 /\ promises' = [promises EXCEPT ![p] =
                        [@ EXCEPT !.state = "resolved", !.value = Len(db[sid]) + 1]]
            ELSE /\ promises' = [promises EXCEPT ![p] =
                        [@ EXCEPT !.state = "resolved", !.value = -1]]
                 /\ UNCHANGED db
    /\ UNCHANGED <<config, toolCallStarts, ends, delivered, endResult, beforeRejected>>
    /\ UNCHANGED <<sessions, heap, handles, calls, ncalls, hookVars>>

\* An after-handler suspended at an await.
Suspended(k, tool, session, startData, output, pc, pendingId, agent) ==
    [key |-> k, tool |-> tool, session |-> session, startData |-> startData,
     output |-> output, pc |-> pc, pendingId |-> pendingId, agent |-> agent]

\* The handler finished for key k.  how: "noEntry" and "noSession" are its two silent
\* returns, "updated" and "recorded" a store call that succeeded, "failed" an error
\* that the catch block logged.
Ended(k, how) == endResult' = [endResult EXCEPT ![k] = how]

\* The fallback: session.agent.tools.record(...) is called.  With no agent on the
\* session the call throws inside the try block and is logged.
CallRecord(e) ==
    IF heap[e.session].agent = 0
    THEN /\ Ended(e.key, "failed")
         /\ ends' = ends (-) SetToBag({e})
    ELSE /\ ends' = (ends (-) SetToBag({e})) (+)
                    SetToBag({[e EXCEPT !.pc = "record",
                                        !.agent = heap[e.session].agent]})
         /\ UNCHANGED endResult

\* An after-handler that takes the id of the newest row of the store instead of
\* the id its own begin was given (a seeded fault).
NewestRowId(e) == Len(db[handles[promises[e.startData.pendingIdPromise].agent].sid])

\* An after-handler that takes every pending id for the invalid one (a seeded
\* fault).
IgnoredId(e) == -1

\* The id the after-handler got from `await startData.pendingIdPromise`.
AwaitedId(e) == promises[e.startData.pendingIdPromise].value

\* The after-handler for a tracked tool, up to its first await.
AfterTracked(s, c, output) ==
    LET k == makeCallKey(s, c)
        startData == toolCallStarts[k]
        session == getSession(s)
        e == Suspended(k, ToolOf(c), session, startData, output, "awaitId", 0, 0)
    IN  /\ toolCallStarts' = StartDataDelete(k)
        /\ IF ~startData.present
           THEN Ended(k, "noEntry") /\ UNCHANGED ends
           ELSE IF session = 0
           THEN Ended(k, "noSession") /\ UNCHANGED ends
           ELSE IF startData.pendingIdPromise # 0
           THEN /\ ends' = ends (+) SetToBag({e})
                /\ UNCHANGED endResult
           ELSE IF heap[session].agent = 0
           THEN Ended(k, "failed") /\ UNCHANGED ends
           ELSE /\ ends' = ends (+) SetToBag({[e EXCEPT !.pc = "record",
                                                      !.agent = heap[session].agent]})
                /\ UNCHANGED endResult

\* The handler createToolExecuteAfterHandler(config) returns, delivered one
\* tool.execute.after event.
AfterHandler(s, c, output) ==
    /\ delivered' = Delivered(makeCallKey(s, c), "end")
    /\ IF shouldTrackTool(config, ToolOf(c))
       THEN AfterTracked(s, c, output)
       ELSE UNCHANGED <<toolCallStarts, ends, endResult>>
    /\ UNCHANGED <<config, promises, beforeRejected>>
    /\ UNCHANGED <<clientVars, hookVars>>

\* The after-handler resumes after `await startData.pendingIdPromise`: with a valid
\* id it calls tools.error / tools.success on that id, otherwise tools.record.
AfterGotId(e) ==
    /\ e \in BagToSet(ends)
    /\ e.pc = "awaitId"
    /\ promises[e.startData.pendingIdPromise].state = "resolved"
    /\ IF AwaitedId(e) > 0
       THEN IF heap[e.session].agent = 0
            THEN /\ Ended(e.key, "failed")
                 /\ ends' = ends (-) SetToBag({e})
            ELSE /\ ends' = (ends (-) SetToBag({e})) (+)
                            SetToBag({[e EXCEPT !.pc = "update",
                                                !.pendingId = AwaitedId(e),
                                                !.agent = heap[e.session].agent]})
                 /\ UNCHANGED endResult
       ELSE CallRecord(e)
    /\ UNCHANGED <<config, toolCallStarts, promises, delivered, beforeRejected>>
    /\ UNCHANGED <<clientVars, hookVars>>

\* tools.error(id, ...) / tools.success(id, ...) settles: the row is updated in
\* place, or the call fails and the catch block logs.
AfterUpdateSettle(e) ==
    /\ e \in BagToSet(ends)
    /\ e.pc = "update"
    /\ ends' = ends (-) SetToBag({e})
    /\ LET sid == handles[e.agent].sid IN
       \E ok \in {TRUE, FALSE} :
         IF ok /\ handles[e.agent].open /\ e.pendingId \in DOMAIN db[sid]
         THEN /\ db' = [db EXCEPT ![sid][e.pendingId] =
                          CompletedRow(@, isError(e.output), e.output)]
              /\ Ended(e.key, "updated")
         ELSE /\ Ended(e.key, "failed")
              /\ UNCHANGED db
    /\ UNCHANGED <<config, toolCallStarts, promises, delivered, beforeRejected>>
    /\ UNCHANGED <<sessions, heap, handles, calls, ncalls, hookVars>>

\* tools.record(...) settles: one complete row is inserted, or the call fails and
\* the catch block logs.
AfterRecordSettle(e) ==
    /\ e \in BagToSet(ends)
    /\ e.pc = "record"
    /\ ends' = ends (-) SetToBag({e})
    /\ LET sid == handles[e.agent].sid IN
       \E ok \in {TRUE, FALSE} :
         IF ok /\ handles[e.agent].open
         THEN /\ db' = [db EXCEPT ![sid] =
                          Append(@, RecordedRow(e.tool, e.startData.args,
                                                isError(e.output), e.output))]
              /\ Ended(e.key, "recorded")
         ELSE /\ Ended(e.key, "failed")
              /\ UNCHANGED db
    /\ UNCHANGED <<config, toolCallStarts, promises, delivered, beforeRejected>>
    /\ UNCHANGED <<sessions, heap, handles, calls, ncalls, hookVars>>

(***************************************************************************)
(* src/src/hooks/session.ts and src/src/agentfs/mount.ts                   *)
(***************************************************************************)

\* const IS_LINUX = platform() === "linux"
IS_LINUX == TRUE

\* What verifyMount finds, as far as it looks: proc.exitCode (null while the process
\* runs); whether access(mountPath, R_OK) resolves; and what the `mount` command
\* tells: the mount path is in its output, or is not, or the command could not be
\* run.  "unchecked" is a check verifyMount returned before.
ExitCodes == {"null", "zero", "nonzero"}
Accessible == {"yes", "no"}
MountTables == {"listed", "absent", "failed"}

\* No verification was made.
NotVerified ==
    [exitCode |-> "null", accessible |-> "unchecked", mountTable |-> "unchecked"]

\* A session event handler suspended at an await.  context is the handler's own
\* `context`; target and agent are the context and the AgentFS instance of the
\* openDatabase / closeDatabase / closeSession call it is inside; proc is the pid of
\* the mount process it spawned.
Handler(kind, s, isNewSession, pc, context) ==
    [kind |-> kind, sid |-> s, isNewSession |-> isNewSession, pc |-> pc,
     context |-> context, target |-> 0, agent |-> 0, proc |-> 0,
     observed |-> NotVerified]

Replaced(h, g) == (handlers (-) SetToBag({h})) (+) SetToBag({g})
Removed(h) == handlers (-) SetToBag({h})

SessionBegins == SumOver([s \in SessionIds |-> hostEvents[s].created + hostEvents[s].status],
                         SessionIds)
SessionEnds == SumOver([s \in SessionIds |-> hostEvents[s].deleted], SessionIds)

HostEvent(s, type) ==
    [hostEvents EXCEPT ![s] =
        IF type = "created" THEN [@ EXCEPT !.created = @ + 1]
        ELSE IF type = "status" THEN [@ EXCEPT !.status = @ + 1]
        ELSE [@ EXCEPT !.deleted = @ + 1]]

\* A guard that looks at the registry only (a seeded fault).
InRegistry(s) == getSession(s) # 0

\* initializingSessions.has(sessionId) || getSession(sessionId)
AlreadyInitialized(s) == s \in initializingSessions \/ getSession(s) # 0

\* initializeSession up to its first await: the guard, initializingSessions.add, and
\* createSessionContext up to `await mkdir(...)`.
initializeSession(s, isNewSession) ==
    IF AlreadyInitialized(s)
    THEN UNCHANGED <<initializingSessions, handlers>>
    ELSE /\ initializingSessions' = initializingSessions \cup {s}
         /\ handlers' = handlers (+) SetToBag({
                IF sessions[s] # 0
                THEN Handler("init", s, isNewSession, "ctxReady", sessions[s])
                ELSE Handler("init", s, isNewSession, "mkdir", 0)})

\* event.type === "session.created"
SessionCreated(s) ==
    /\ hostEvents' = HostEvent(s, "created")
    /\ initializeSession(s, TRUE)
    /\ UNCHANGED <<mountProcesses, cli>>
    /\ UNCHANGED <<clientVars, trackVars, rewrite, kv, alive>>

\* A session.status handler that never resumes a session (a seeded fault).
NeverResumed(s) == FALSE

\* !getSession(sessionId) && !initializingSessions.has(sessionId)
Uninitialized(s) == getSession(s) = 0 /\ s \notin initializingSessions

\* event.type === "session.status"
SessionStatus(s) ==
    /\ hostEvents' = HostEvent(s, "status")
    /\ IF Uninitialized(s)
       THEN initializeSession(s, FALSE)
       ELSE UNCHANGED <<initializingSessions, handlers>>
    /\ UNCHANGED <<mountProcesses, cli>>
    /\ UNCHANGED <<clientVars, trackVars, rewrite, kv, alive>>

\* An initializeSession without its finally block (a seeded fault).
InitEndedKeepingGuard(h) ==
    /\ handlers' = Removed(h)
    /\ UNCHANGED initializingSessions

\* initializeSession ends, through its catch block or not: the finally block.
InitEnded(h) ==
    /\ handlers' = Removed(h)
    /\ initializingSessions' = initializingSessions \ {h.sid}

\* createSessionContext resumes after `await mkdir(...)` inside initializeSession.
InitMkdirDone(h) ==
    /\ h \in BagToSet(handlers)
    /\ h.pc = "mkdir"
    /\ \E ok \in BOOLEAN :
        IF ok
        THEN /\ heap' = Append(heap, NewContext(h.sid))
             /\ sessions' = RegisterContext(h.sid, Len(heap) + 1)
             /\ handlers' = Replaced(h, [h EXCEPT !.pc = "ctxReady",
                                                  !.context = Len(heap) + 1])
             /\ UNCHANGED initializingSessions
        ELSE /\ InitEnded(h)
             /\ UNCHANGED <<sessions, heap>>
    /\ UNCHANGED <<handles, calls, ncalls, db, mountProcesses, cli, hostEvents>>
    /\ UNCHANGED <<trackVars, rewrite, kv, alive>>

\* openDatabase(sessionId) called by initializeSession, up to its first await.
InitOpenDatabase(h) ==
    LET context == sessions[h.sid] IN
    IF context = 0
    THEN InitEnded(h)
    ELSE /\ handlers' = Replaced(h,
                IF heap[context].agent # 0
                THEN [h EXCEPT !.pc = "opened"]
                ELSE [h EXCEPT !.pc = "open", !.target = context])
         /\ UNCHANGED initializingSessions

\* One more mountOverlay call, or one more mount process spawned, for session s.
Ran(s, what) ==
    [cli EXCEPT ![s] =
        IF what = "mountOverlay" THEN [@ EXCEPT !.mountOverlay = @ + 1]
        ELSE [@ EXCEPT !.spawned = @ + 1]]

\* One more mountOverlay call that threw; the catch block of initializeSession
\* shows the "AgentFS Mount Failed" toast.
Raised(h) ==
    [cli EXCEPT ![h.sid] =
        [@ EXCEPT !.raised = @ + 1,
                  !.toasts = IF h.kind = "init" THEN @ + 1 ELSE @]]

\* A guard of mountOverlay that never holds (a seeded fault).
NeverMounted(context) == FALSE

\* if (mount.mounted) { ... return } at the top of mountOverlay
AlreadyMounted(context) == heap[context].mount.mounted

\* initializeSession resumes after `await createSessionContext(...)`: it calls
\* mountOverlay (up to `await isAgentFSInstalled()`) or, without auto-mount,
\* openDatabase.
InitContextReady(h) ==
    /\ h \in BagToSet(handlers)
    /\ h.pc = "ctxReady"
    /\ IF config.autoMount /\ IS_LINUX
       THEN /\ cli' = Ran(h.sid, "mountOverlay")
            /\ IF AlreadyMounted(h.context)
               THEN InitEnded(h)
               ELSE /\ handlers' = Replaced(h, [h EXCEPT !.pc = "which"])
                    /\ UNCHANGED initializingSessions
       ELSE /\ InitOpenDatabase(h)
            /\ UNCHANGED cli
    /\ UNCHANGED <<mountProcesses, hostEvents>>
    /\ UNCHANGED <<clientVars, trackVars, rewrite, kv, alive>>

\* mountOverlay(context.mount, projectPath) called directly on the MountInfo of a
\* registered session, up to `await isAgentFSInstalled()`.
InvokeMountOverlay(s) ==
    /\ Invoked
    /\ getSession(s) # 0
    /\ cli' = Ran(s, "mountOverlay")
    /\ handlers' =
          IF AlreadyMounted(getSession(s))
          THEN handlers
          ELSE handlers (+) SetToBag({Handler("mountOverlay", s, FALSE, "which",
                                              getSession(s))})
    /\ UNCHANGED <<sessions, heap, handles, calls, db>>
    /\ UNCHANGED <<initializingSessions, mountProcesses, hostEvents>>
    /\ UNCHANGED <<trackVars, rewrite, kv, alive>>

\* An initializeSession that gives up when mountOverlay throws (a seeded fault).
MountFailedIsTerminal(h, message) ==
    /\ heap' = [heap EXCEPT ![h.context].mount.error = message]
    /\ InitEnded(h)

\* mountOverlay threw inside initializeSession: the catch block stores the message
\* in context.mount.error, and initialization goes on to open the database.
MountFailed(h, message) ==
    /\ heap' = [heap EXCEPT ![h.context].mount.error = message]
    /\ InitOpenDatabase(h)

\* mountOverlay throws Error(message).  `stored` tells whether it assigned
\* mount.error before the throw; the caller is initializeSession or a direct caller.
MountRaised(h, message, stored) ==
    IF h.kind = "init"
    THEN MountFailed(h, message)
    ELSE /\ heap' = IF stored
                    THEN [heap EXCEPT ![h.context].mount.error = message]
                    ELSE heap
         /\ handlers' = Removed(h)
         /\ UNCHANGED initializingSessions

\* An initializeSession that opens the database after a successful mount too (a
\* seeded fault).
MountReturnedThenOpens(h) ==
    IF h.kind = "init"
    THEN InitOpenDatabase(h)
    ELSE /\ handlers' = Removed(h)
         /\ UNCHANGED initializingSessions

\* mountOverlay returns normally to initializeSession (which skips the database)
\* or to a direct caller.
MountReturned(h) ==
    IF h.kind = "init"
    THEN InitEnded(h)
    ELSE /\ handlers' = Removed(h)
         /\ UNCHANGED initializingSessions

\* mountOverlay resumes after `await isAgentFSInstalled()` and spawns `agentfs init`.
MountWhichDone(h) ==
    /\ h \in BagToSet(handlers)
    /\ h.pc = "which"
    /\ \E installed \in BOOLEAN :
        IF installed
        THEN /\ handlers' = Replaced(h, [h EXCEPT !.pc = "cliInit"])
             /\ UNCHANGED <<heap, initializingSessions, cli>>
        ELSE /\ MountRaised(h, "AgentFS CLI not found", FALSE)
             /\ cli' = Raised(h)
    /\ UNCHANGED <<sessions, handles, calls, ncalls, db, mountProcesses, hostEvents>>
    /\ UNCHANGED <<trackVars, rewrite, kv, alive>>

\* mountOverlay resumes after `await initProc.exited`: it spawns `agentfs mount`,
\* stores the process in mountProcesses and sleeps.
MountInitDone(h) ==
    /\ h \in BagToSet(handlers)
    /\ h.pc = "cliInit"
    /\ \E ok \in BOOLEAN :
        IF ok
        THEN LET sid == heap[h.context].sessionId
                 pid == cli[h.sid].spawned + 1
             IN  /\ cli' = Ran(h.sid, "spawn")
                 /\ mountProcesses' = [mountProcesses EXCEPT ![sid] = pid]
                 /\ alive' = alive \cup {<<sid, pid>>}
                 /\ handlers' = Replaced(h, [h EXCEPT !.pc = "verify", !.proc = pid])
                 /\ UNCHANGED <<heap, initializingSessions>>
        ELSE /\ MountRaised(h, "Failed to initialize AgentFS", FALSE)
             /\ cli' = Raised(h)
             /\ UNCHANGED <<mountProcesses, alive>>
    /\ UNCHANGED <<sessions, handles, calls, ncalls, db, hostEvents>>
    /\ UNCHANGED <<trackVars, rewrite, kv>>

\* The mount process pid of session s exits by itself (the environment).
MountExits(s, pid) ==
    /\ <<s, pid>> \in alive
    /\ alive' = alive \ {<<s, pid>>}
    /\ UNCHANGED <<clientVars, trackVars, rewrite>>
    /\ UNCHANGED <<initializingSessions, handlers, mountProcesses, cli, hostEvents, kv>>

\* What verifyMount can find for the mount process proc of session sid: the exit
\* code is null exactly while the process is alive; the mount point is looked at
\* unless the exit code is not 0, and the mount table only if the mount point is
\* readable.
Observations(sid, proc) ==
    {o \in [exitCode : ExitCodes,
            accessible : Accessible \cup {"unchecked"},
            mountTable : MountTables \cup {"unchecked"}] :
        /\ o.exitCode = "null" <=> <<sid, proc>> \in alive
        /\ o.accessible = "unchecked" <=> o.exitCode = "nonzero"
        /\ o.mountTable = "unchecked" <=> o.accessible # "yes"}

\* A verifyMount that takes a mount command that could not be run for a failed mount
\* (a seeded fault).
verifyMountStrict(observed) ==
    IF observed.exitCode = "nonzero" THEN "Mount process exited"
    ELSE IF observed.accessible # "yes" THEN "Mount point not accessible"
    ELSE IF observed.mountTable # "listed"
    THEN "Mount point exists but is not a FUSE mount"
    ELSE ""

\* verifyMount(mountPath, proc): the error message, or "" for undefined.  A process
\* that exited with a code other than 0 is an error; then the mount point must be
\* readable; then, if the `mount` command ran, its output must hold the mount path.
verifyMount(observed) ==
    IF observed.exitCode = "nonzero" THEN "Mount process exited"
    ELSE IF observed.accessible # "yes" THEN "Mount point not accessible"
    ELSE IF observed.mountTable = "absent"
    THEN "Mount point exists but is not a FUSE mount"
    ELSE ""

\* A mountOverlay that leaves mount.error as it was (a seeded fault).
MountSucceededKeepingError(mount, pid) ==
    [mount EXCEPT !.mounted = TRUE, !.pid = pid]

\* mount.mounted = true; mount.pid = mountProc.pid; mount.error = undefined
MountSucceeded(mount, pid) ==
    [mount EXCEPT !.mounted = TRUE, !.pid = pid, !.error = ""]

\* mountOverlay resumes after `await Bun.sleep(500)` and calls verifyMount, which
\* looks at the process, the mount point and the mount table.
MountSleepDone(h) ==
    /\ h \in BagToSet(handlers)
    /\ h.pc = "verify"
    /\ \E observed \in Observations(heap[h.context].sessionId, h.proc) :
          handlers' = Replaced(h, [h EXCEPT !.pc = "verified", !.observed = observed])
    /\ UNCHANGED <<clientVars, trackVars, rewrite>>
    /\ UNCHANGED <<initializingSessions, mountProcesses, cli, hostEvents, kv, alive>>

\* mountOverlay resumes after `await verifyMount(...)`.
MountVerifyDone(h) ==
    /\ h \in BagToSet(handlers)
    /\ h.pc = "verified"
    /\ LET mountError == verifyMount(h.observed) IN
        IF mountError = ""
        THEN /\ heap' = [heap EXCEPT ![h.context].mount = MountSucceeded(@, h.proc)]
             /\ MountReturned(h)
             /\ UNCHANGED cli
        ELSE /\ MountRaised(h, mountError, TRUE)
             /\ cli' = Raised(h)
    /\ UNCHANGED <<sessions, handles, calls, ncalls, db, mountProcesses, hostEvents>>
    /\ UNCHANGED <<trackVars, rewrite, kv, alive>>

\* openDatabase resumes after `await withRetry(() => AgentFS.open(...))`.
InitOpenDone(h) ==
    /\ h \in BagToSet(handlers)
    /\ h.pc = "open"
    /\ \E ok \in BOOLEAN :
        IF ok
        THEN /\ handles' = Append(handles, NewHandle(h.sid))
             /\ handlers' = Replaced(h, [h EXCEPT !.pc = "pragma",
                                                  !.agent = Len(handles) + 1])
             /\ UNCHANGED initializingSessions
        ELSE /\ InitEnded(h)
             /\ UNCHANGED handles
    /\ UNCHANGED <<sessions, heap, calls, ncalls, db, mountProcesses, cli, hostEvents>>
    /\ UNCHANGED <<trackVars, rewrite, kv, alive>>

\* openDatabase resumes after `await db.pragma(...)` and sets context.agent.
InitPragmaDone(h) ==
    /\ h \in BagToSet(handlers)
    /\ h.pc = "pragma"
    /\ \E ok \in BOOLEAN :
        IF ok
        THEN /\ heap' = [heap EXCEPT ![h.target].agent = h.agent]
             /\ handlers' = Replaced(h, [h EXCEPT !.pc = "opened"])
             /\ UNCHANGED initializingSessions
        ELSE /\ InitEnded(h)
             /\ UNCHANGED heap
    /\ UNCHANGED <<sessions, handles, calls, ncalls, db, mountProcesses, cli, hostEvents>>
    /\ UNCHANGED <<trackVars, rewrite, kv, alive>>

\* The keys of the session metadata.
MetaKeys == {"session:mountError", "session:startedAt", "session:resumedAt",
             "session:projectPath", "session:endedAt"}

\* The kv.set call handler h is suspended in: its key and its value (a time or a
\* path is recorded as "set").
MetaKey(h) ==
    IF h.pc = "metaError" THEN "session:mountError"
    ELSE IF h.pc = "metaAt"
    THEN (IF h.isNewSession THEN "session:startedAt" ELSE "session:resumedAt")
    ELSE IF h.pc = "metaPath" THEN "session:projectPath"
    ELSE "session:endedAt"

MetaValue(h) == IF h.pc = "metaError" THEN heap[h.context].mount.error ELSE "set"

\* agent.kv.set(key, value) resolved for a handle of session s.
KvSet(s, key, value) == [kv EXCEPT ![s][key] = value]

\* `await context.agent.kv.set(...)` of initializeSession, up to the await; reading
\* kv of an agent that was unset meanwhile throws, which ends the initialization.
InitKvSet(h, pc) ==
    IF heap[h.context].agent = 0
    THEN InitEnded(h)
    ELSE /\ handlers' = Replaced(h, [h EXCEPT !.pc = pc,
                                              !.agent = heap[h.context].agent])
         /\ UNCHANGED initializingSessions

\* initializeSession resumes after `await openDatabase(sessionId)`: with an agent
\* on its context it writes the session metadata, the mount error first.
InitOpened(h) ==
    /\ h \in BagToSet(handlers)
    /\ h.pc = "opened"
    /\ IF heap[h.context].agent # 0
       THEN InitKvSet(h, IF heap[h.context].mount.error # ""
                         THEN "metaError" ELSE "metaAt")
       ELSE InitEnded(h)
    /\ UNCHANGED <<mountProcesses, cli, hostEvents>>
    /\ UNCHANGED <<clientVars, trackVars, rewrite, kv, alive>>

\* initializeSession resumes after one of its `await context.agent.kv.set(...)`
\* calls: the write succeeded (on an open handle only) or threw.
InitMetaDone(h) ==
    /\ h \in BagToSet(handlers)
    /\ h.pc \in {"metaError", "metaAt", "metaPath"}
    /\ \E ok \in BOOLEAN :
        /\ ok => handles[h.agent].open
        /\ IF ok
           THEN /\ kv' = KvSet(h.sid, MetaKey(h), MetaValue(h))
                /\ IF h.pc = "metaError" THEN InitKvSet(h, "metaAt")
                   ELSE IF h.pc = "metaAt" THEN InitKvSet(h, "metaPath")
                   ELSE InitEnded(h)
           ELSE /\ InitEnded(h)
                /\ UNCHANGED kv
    /\ UNCHANGED <<mountProcesses, cli, hostEvents>>
    /\ UNCHANGED <<clientVars, trackVars, rewrite, alive>>

\* A teardown that goes on to the unmount without closing the database (a seeded
\* fault).
SkipCloseDatabase(h) ==
    /\ handlers' = Replaced(h, [h EXCEPT !.pc = "dbClosed"])
    /\ UNCHANGED handles

\* closeDatabase(sessionId) called by the session.deleted handler, up to its await.
CleanupCloseDatabase(h) ==
    LET context == sessions[h.sid] IN
    IF context = 0 \/ heap[context].agent = 0
    THEN /\ handlers' = Replaced(h, [h EXCEPT !.pc = "dbClosed"])
         /\ UNCHANGED handles
    ELSE /\ handles' = CloseInvoked(heap[context].agent)
         /\ handlers' = Replaced(h, [h EXCEPT !.pc = "closeDb", !.target = context,
                                              !.agent = heap[context].agent])

\* event.type === "session.deleted", up to the first await: with an agent it writes
\* session:endedAt (to a handle that is open, or to one on which close was invoked
\* already), without one it calls closeDatabase, which returns at once.
SessionDeleted(s) ==
    /\ hostEvents' = HostEvent(s, "deleted")
    /\ LET context == getSession(s)
           h == Handler("deleted", s, FALSE, "endedAt", context)
       IN  IF context = 0
           THEN UNCHANGED <<handlers, handles>>
           ELSE IF heap[context].agent # 0
           THEN /\ handlers' = handlers (+)
                        SetToBag({[h EXCEPT
                            !.agent = heap[context].agent,
                            !.pc = IF handles[heap[context].agent].open
                                   THEN "endedAt" ELSE "endedAtClosed"]})
                /\ UNCHANGED handles
           ELSE /\ handlers' = handlers (+) SetToBag({[h EXCEPT !.pc = "dbClosed"]})
                /\ UNCHANGED handles
    /\ UNCHANGED <<sessions, heap, calls, ncalls, db>>
    /\ UNCHANGED <<initializingSessions, mountProcesses, cli>>
    /\ UNCHANGED <<trackVars, rewrite, kv, alive>>

\* The handler resumes after `await context.agent.kv.set("session:endedAt", ...)`.
\* A failure goes to the catch block, which ends the cleanup.  The write was sent
\* when the event arrived: it may have succeeded although close was invoked on the
\* handle since (pc "endedAt"), and it fails when close had been invoked before it
\* was sent (pc "endedAtClosed").
CleanupEndedAtDone(h) ==
    /\ h \in BagToSet(handlers)
    /\ h.pc \in {"endedAt", "endedAtClosed"}
    /\ \E ok \in BOOLEAN :
        /\ ok => h.pc = "endedAt"
        /\ IF ok
           THEN /\ kv' = KvSet(h.sid, MetaKey(h), MetaValue(h))
                /\ CleanupCloseDatabase(h)
           ELSE /\ handlers' = Removed(h)
                /\ UNCHANGED <<handles, kv>>
    /\ UNCHANGED <<sessions, heap, calls, ncalls, db>>
    /\ UNCHANGED <<initializingSessions, mountProcesses, cli, hostEvents>>
    /\ UNCHANGED <<trackVars, rewrite, alive>>

\* closeDatabase resumes after `await context.agent.close()`.
CleanupCloseDbDone(h) ==
    /\ h \in BagToSet(handlers)
    /\ h.pc = "closeDb"
    /\ \E ok \in BOOLEAN :
        IF ok
        THEN /\ heap' = [heap EXCEPT ![h.target].agent = 0]
             /\ handles' = CloseResolved(h.agent)
             /\ handlers' = Replaced(h, [h EXCEPT !.pc = "dbClosed"])
        ELSE /\ handlers' = Removed(h)
             /\ UNCHANGED <<heap, handles>>
    /\ UNCHANGED <<sessions, calls, ncalls, db>>
    /\ UNCHANGED <<initializingSessions, mountProcesses, cli, hostEvents>>
    /\ UNCHANGED <<trackVars, rewrite, kv, alive>>

\* closeSession(sessionId) called by the session.deleted handler, up to its await.
CleanupCloseSession(h) ==
    LET context == sessions[h.sid] IN
    IF context = 0
    THEN /\ handlers' = Removed(h)
         /\ UNCHANGED <<sessions, handles>>
    ELSE IF heap[context].agent = 0
    THEN /\ sessions' = [sessions EXCEPT ![h.sid] = 0]
         /\ handlers' = Removed(h)
         /\ UNCHANGED handles
    ELSE /\ handles' = CloseInvoked(heap[context].agent)
         /\ handlers' = Replaced(h, [h EXCEPT !.pc = "closeSess", !.target = context,
                                              !.agent = heap[context].agent])
         /\ UNCHANGED sessions

\* Where the synchronous part of unmountOverlay leaves it: awaiting `fusermount -u`;
\* awaiting `umount`, because spawning fusermount threw; or awaiting nothing,
\* because spawning either threw.
UnmountSpawns == {"fusermount", "umount", "none"}

UnmountPc(awaiting) ==
    IF awaiting = "fusermount" THEN "unmount"
    ELSE IF awaiting = "umount" THEN "umount"
    ELSE "unmounted"

\* An unmountOverlay that tries umount whether fusermount failed or not (a seeded
\* fault).
AlwaysTriesUmount(c, failed) ==
    [c EXCEPT !.primaryFailed = IF failed THEN @ + 1 ELSE @, !.umounts = @ + 1]

\* The catch block of the fusermount attempt: the primary command failed (or not),
\* and umount is tried if it did.
TriesUmount(c, failed) ==
    IF failed THEN [c EXCEPT !.primaryFailed = @ + 1, !.umounts = @ + 1] ELSE c

\* mount.mounted = false; mount.pid = undefined
Unmounted(context) ==
    [heap EXCEPT ![context].mount.mounted = FALSE, ![context].mount.pid = 0]

\* unmountOverlay(mount) past its guard, up to its first await: it kills and
\* forgets the tracked process of the session and spawns `fusermount -u`, and
\* `umount` if that spawn threw; with nothing to await it goes on to its end.
unmountOverlay(context, awaiting) ==
    LET sid == heap[context].sessionId IN
    /\ cli' = [cli EXCEPT ![sid] =
                  TriesUmount(
                      [@ EXCEPT !.kills = IF mountProcesses[sid] # 0 THEN @ + 1 ELSE @,
                                !.unmounts = @ + 1],
                      awaiting # "fusermount")]
    /\ alive' = alive \ {<<sid, mountProcesses[sid]>>}
    /\ mountProcesses' = [mountProcesses EXCEPT ![sid] = 0]
    /\ heap' = IF awaiting = "none" THEN Unmounted(context) ELSE heap

\* A guard of unmountOverlay that never holds (a seeded fault).
AlwaysUnmounts(context) == FALSE

\* if (!mount.mounted) { ... return } at the top of unmountOverlay
NotMounted(context) == ~heap[context].mount.mounted

\* unmountOverlay(context.mount) called directly on the MountInfo of a registered
\* session, up to the await of fusermount.
InvokeUnmountOverlay(s) ==
    /\ Invoked
    /\ getSession(s) # 0
    /\ IF NotMounted(getSession(s))
       THEN UNCHANGED <<cli, alive, mountProcesses, handlers, heap>>
       ELSE \E awaiting \in UnmountSpawns :
            /\ unmountOverlay(getSession(s), awaiting)
            /\ handlers' = handlers (+)
                  SetToBag({Handler("unmountOverlay", s, FALSE, UnmountPc(awaiting),
                                    getSession(s))})
    /\ UNCHANGED <<sessions, handles, calls, db>>
    /\ UNCHANGED <<initializingSessions, hostEvents>>
    /\ UNCHANGED <<trackVars, rewrite, kv>>

\* The handler resumes after `await closeDatabase(sessionId)`: it calls
\* unmountOverlay when its context is mounted, and closeSession otherwise.
CleanupDbClosed(h) ==
    /\ h \in BagToSet(handlers)
    /\ h.pc = "dbClosed"
    /\ IF heap[h.context].mount.mounted
       THEN \E awaiting \in UnmountSpawns :
            /\ unmountOverlay(h.context, awaiting)
            /\ handlers' = Replaced(h, [h EXCEPT !.pc = UnmountPc(awaiting)])
            /\ UNCHANGED <<sessions, handles>>
       ELSE /\ CleanupCloseSession(h)
            /\ UNCHANGED <<mountProcesses, cli, alive, heap>>
    /\ UNCHANGED <<calls, ncalls, db, initializingSessions, hostEvents>>
    /\ UNCHANGED <<trackVars, rewrite, kv>>

\* unmountOverlay returns to its caller: the session.deleted handler calls
\* closeSession, and a direct caller gets its result.
UnmountReturned(h) ==
    IF h.kind = "deleted"
    THEN CleanupCloseSession(h)
    ELSE /\ handlers' = Removed(h)
         /\ UNCHANGED <<sessions, handles>>

\* unmountOverlay resumes after `await unmountProc.exited` of fusermount: with exit
\* code 0 it goes on to its end; otherwise it spawns umount and awaits it, or goes
\* on to its end if that spawn threw.
CleanupUnmountDone(h) ==
    /\ h \in BagToSet(handlers)
    /\ h.pc = "unmount"
    /\ \E exitCode \in {"zero", "nonzero"}, spawned \in BOOLEAN :
        /\ cli' = [cli EXCEPT ![heap[h.context].sessionId] =
                       TriesUmount(@, exitCode # "zero")]
        /\ IF exitCode # "zero" /\ spawned
           THEN /\ handlers' = Replaced(h, [h EXCEPT !.pc = "umount"])
                /\ UNCHANGED <<heap, sessions, handles>>
           ELSE /\ heap' = Unmounted(h.context)
                /\ UnmountReturned(h)
    /\ UNCHANGED <<calls, ncalls, db, initializingSessions, mountProcesses, hostEvents>>
    /\ UNCHANGED <<trackVars, rewrite, kv, alive>>

\* unmountOverlay resumes after `await unmountProc.exited` of umount and goes on to
\* its end, whatever the exit code.
CleanupUmountDone(h) ==
    /\ h \in BagToSet(handlers)
    /\ h.pc = "umount"
    /\ heap' = Unmounted(h.context)
    /\ UnmountReturned(h)
    /\ UNCHANGED <<calls, ncalls, db, initializingSessions, mountProcesses, cli,
                   hostEvents>>
    /\ UNCHANGED <<trackVars, rewrite, kv, alive>>

\* The caller of an unmountOverlay that had nothing to await resumes.
CleanupUnmounted(h) ==
    /\ h \in BagToSet(handlers)
    /\ h.pc = "unmounted"
    /\ UnmountReturned(h)
    /\ UNCHANGED <<heap, calls, ncalls, db, initializingSessions, mountProcesses,
                   cli, hostEvents>>
    /\ UNCHANGED <<trackVars, rewrite, kv, alive>>

\* closeSession resumes after `await context.agent.close()`.
CleanupCloseSessDone(h) ==
    /\ h \in BagToSet(handlers)
    /\ h.pc = "closeSess"
    /\ handlers' = Removed(h)
    /\ \E ok \in BOOLEAN :
        IF ok
        THEN /\ sessions' = [sessions EXCEPT ![h.sid] = 0]
             /\ handles' = CloseResolved(h.agent)
        ELSE UNCHANGED <<sessions, handles>>
    /\ UNCHANGED <<heap, calls, ncalls, db>>
    /\ UNCHANGED <<initializingSessions, mountProcesses, cli, hostEvents>>
    /\ UNCHANGED <<trackVars, rewrite, kv, alive>>

(***************************************************************************)
(* src/src/hooks/path-rewrite.ts                                           *)
(* Paths are strings, modelled as sequences of characters.                 *)
(***************************************************************************)
MaxPathLen == 4

PathChars == {"/", ".", "a", "b"}

\* Every string of at most MaxPathLen characters: absolute and relative paths, with
\* trailing and doubled slashes and with . and .. segments.
Paths == UNION {[1..n -> PathChars] : n \in 0..MaxPathLen}

\* The project and mount directories: the root directory, two siblings, one under
\* the other, and one written with a trailing slash.
Roots == {<<"/">>, <<"/", "a">>, <<"/", "b">>, <<"/", "a", "/", "b">>, <<"/", "a", "/">>}

\* String.prototype.split("/")
RECURSIVE Split(_)
Split(str) ==
    IF \A i \in DOMAIN str : str[i] # "/"
    THEN <<str>>
    ELSE LET i == CHOOSE j \in DOMAIN str :
                      str[j] = "/" /\ \A k \in 1..(j - 1) : str[k] # "/"
         IN  <<SubSeq(str, 1, i - 1)>> \o Split(SubSeq(str, i + 1, Len(str)))

\* A filter that drops the "." parts and keeps the empty ones (a seeded fault).
RECURSIVE KeepEmptyParts(_)
KeepEmptyParts(parts) ==
    IF parts = <<>> THEN <<>>
    ELSE IF Head(parts) = <<".">> THEN KeepEmptyParts(Tail(parts))
    ELSE <<Head(parts)>> \o KeepEmptyParts(Tail(parts))

\* .filter((p) => p && p !== ".")
RECURSIVE FilterParts(_)
FilterParts(parts) ==
    IF parts = <<>> THEN <<>>
    ELSE IF Head(parts) = <<>> \/ Head(parts) = <<".">>
    THEN FilterParts(Tail(parts))
    ELSE <<Head(parts)>> \o FilterParts(Tail(parts))

\* The loop of normalizePath over parts, from the stack `resolved`: ".." pops (a
\* no-op on an empty stack), any other part is pushed.
RECURSIVE Resolve(_, _)
Resolve(parts, resolved) ==
    IF parts = <<>> THEN resolved
    ELSE IF Head(parts) = <<".", ".">>
    THEN Resolve(Tail(parts),
                 IF resolved = <<>> THEN <<>>
                 ELSE SubSeq(resolved, 1, Len(resolved) - 1))
    ELSE Resolve(Tail(parts), Append(resolved, Head(parts)))

\* Array.prototype.join("/")
RECURSIVE Join(_)
Join(parts) ==
    IF parts = <<>> THEN <<>>
    ELSE IF Len(parts) = 1 THEN Head(parts)
    ELSE Head(parts) \o <<"/">> \o Join(Tail(parts))

normalizePath(path) ==
    IF path = <<>> \/ path = <<"/">> THEN <<"/">>
    ELSE LET stripped == IF EndsWith(path, <<"/">>)
                         THEN SubSeq(path, 1, Len(path) - 1) ELSE path
             normalized == IF StartsWith(stripped, <<"/">>)
                           THEN stripped ELSE <<"/">> \o stripped
         IN  <<"/">> \o Join(Resolve(FilterParts(Split(normalized)), <<>>))

\* A toMountPath that takes any string beginning with the project path for a path
\* under it (a seeded fault).
toMountPathByPrefix(virtualPath, projectPath, mountPath) ==
    LET normalized == normalizePath(virtualPath)
        normalizedProject == normalizePath(projectPath)
        normalizedMount == normalizePath(mountPath)
    IN  IF normalized = normalizedProject THEN normalizedMount
        ELSE IF StartsWith(normalized, normalizedProject)
        THEN normalizedMount \o SubSeq(normalized, Len(normalizedProject) + 1,
                                       Len(normalized))
        ELSE normalized

toMountPath(virtualPath, projectPath, mountPath) ==
    LET normalized == normalizePath(virtualPath)
        normalizedProject == normalizePath(projectPath)
        normalizedMount == normalizePath(mountPath)
    IN  IF normalizedProject = <<"/">>
        THEN (IF normalizedMount = <<"/">> THEN normalized
              ELSE normalizedMount \o (IF normalized = <<"/">> THEN <<>> ELSE normalized))
        ELSE IF normalized = normalizedProject THEN normalizedMount
        ELSE IF StartsWith(normalized, normalizedProject \o <<"/">>)
        THEN LET relativePath == SubSeq(normalized, Len(normalizedProject) + 1,
                                        Len(normalized))
             IN  IF normalizedMount = <<"/">> THEN relativePath
                 ELSE normalizedMount \o relativePath
        ELSE normalized

\* A toProjectPath without the exact-match case (a seeded fault).
toProjectPathOfDescendants(agentPath, projectPath, mountPath) ==
    LET normalized == normalizePath(agentPath)
        normalizedProject == normalizePath(projectPath)
        normalizedMount == normalizePath(mountPath)
    IN  IF StartsWith(normalized, normalizedMount \o <<"/">>)
        THEN normalizedProject \o SubSeq(normalized, Len(normalizedMount) + 1,
                                         Len(normalized))
        ELSE normalized

toProjectPath(agentPath, projectPath, mountPath) ==
    LET normalized == normalizePath(agentPath)
        normalizedProject == normalizePath(projectPath)
        normalizedMount == normalizePath(mountPath)
    IN  IF normalizedMount = <<"/">>
        THEN (IF normalizedProject = <<"/">> THEN normalized
              ELSE normalizedProject \o (IF normalized = <<"/">> THEN <<>>
                                         ELSE normalized))
        ELSE IF normalized = normalizedMount THEN normalizedProject
        ELSE IF StartsWith(normalized, normalizedMount \o <<"/">>)
        THEN LET relativePath == SubSeq(normalized, Len(normalizedMount) + 1,
                                        Len(normalized))
             IN  IF normalizedProject = <<"/">> THEN relativePath
                 ELSE normalizedProject \o relativePath
        ELSE normalized

\* \s of a regular expression (the characters of it that the texts tried contain).
Whitespace == {" ", "\t", "\n"}

\* A pattern without the lookahead (a seeded fault).
NoLookahead(text, last) == TRUE

\* The lookahead (?=/|\s|"|'|$) of rewritePathsInString at the character after a
\* match that ends at position `last` of text.
Lookahead(text, last) ==
    \/ last = Len(text)
    \/ text[last + 1] \in {"/", "\"", "'"} \cup Whitespace

\* The pattern without its "g" flag: only the first match is replaced (a seeded
\* fault).
RECURSIVE ReplaceFirst(_, _, _)
ReplaceFirst(text, from, to) ==
    IF text = <<>> THEN <<>>
    ELSE IF StartsWith(text, from)
            /\ (Len(from) = Len(text)
                  \/ text[Len(from) + 1] \in {"/", "\"", "'", " ", "\t", "\n"})
    THEN to \o SubSeq(text, Len(from) + 1, Len(text))
    ELSE <<Head(text)>> \o ReplaceFirst(Tail(text), from, to)

\* text.replace(new RegExp(`${escaped}(?=/|\\s|"|'|$)`, "g"), to): the matches
\* are found from left to right and do not overlap.
RECURSIVE ReplaceAll(_, _, _)
ReplaceAll(text, from, to) ==
    IF text = <<>> THEN <<>>
    ELSE IF StartsWith(text, from) /\ Lookahead(text, Len(from))
    THEN to \o ReplaceAll(SubSeq(text, Len(from) + 1, Len(text)), from, to)
    ELSE <<Head(text)>> \o ReplaceAll(Tail(text), from, to)

rewritePathsInString(text, fromPath, toPath) ==
    LET normalizedFrom == normalizePath(fromPath)
        normalizedTo == normalizePath(toPath)
    IN  IF normalizedFrom = normalizedTo THEN text
        ELSE ReplaceAll(text, normalizedFrom, normalizedTo)

\* The characters of ".agentfs/mounts/".
AgentFSMounts ==
    <<".", "a", "g", "e", "n", "t", "f", "s", "/", "m", "o", "u", "n", "t", "s", "/">>

\* mountPath.match(/\.agentfs\/mounts\/[^/]+/): the first ".agentfs/mounts/" of the
\* mount path that a character other than "/" follows, up to the next "/" or the end;
\* <<>> stands for null.
extractAgentFSPattern(mountPath) ==
    LET n == Len(AgentFSMounts)
        starts == {i \in 1..(Len(mountPath) - n) :
                      /\ SubSeq(mountPath, i, i + n - 1) = AgentFSMounts
                      /\ mountPath[i + n] # "/"}
    IN  IF starts = {} THEN <<>>
        ELSE LET first == CHOOSE i \in starts : \A j \in starts : i <= j
                 stops == {j \in (first + n)..Len(mountPath) :
                             \A k \in (first + n)..j : mountPath[k] # "/"}
                 last == CHOOSE j \in stops : \A k \in stops : k <= j
             IN  SubSeq(mountPath, first, last)

\* The number of "../" that text begins with.
RECURSIVE LeadingParents(_)
LeadingParents(text) ==
    IF StartsWith(text, <<".", ".", "/">>)
    THEN 1 + LeadingParents(SubSeq(text, 4, Len(text)))
    ELSE 0

\* result.replace(new RegExp(`(?:\\.\\.\\/)+${escapedPattern}\\/`, "g"), "./")
RECURSIVE ReplaceParentRelative(_, _)
ReplaceParentRelative(text, pattern) ==
    IF text = <<>> THEN <<>>
    ELSE LET k == LeadingParents(text)
             rest == SubSeq(text, 3 * k + 1, Len(text))
         IN  IF k >= 1 /\ StartsWith(rest, pattern \o <<"/">>)
             THEN <<".", "/">>
                    \o ReplaceParentRelative(
                          SubSeq(rest, Len(pattern) + 2, Len(rest)), pattern)
             ELSE <<Head(text)>> \o ReplaceParentRelative(Tail(text), pattern)

\* result.replace(new RegExp(`\\.\\/${escapedPattern}\\/`, "g"), "./")
RECURSIVE ReplaceCurrentDirRelative(_, _)
ReplaceCurrentDirRelative(text, pattern) ==
    LET sub == <<".", "/">> \o pattern \o <<"/">>
    IN  IF text = <<>> THEN <<>>
        ELSE IF StartsWith(text, sub)
        THEN <<".", "/">>
               \o ReplaceCurrentDirRelative(SubSeq(text, Len(sub) + 1, Len(text)),
                                            pattern)
        ELSE <<Head(text)>> \o ReplaceCurrentDirRelative(Tail(text), pattern)

rewritePathsInOutput(text, mountPath, projectPath) ==
    LET afterAbsolute == rewritePathsInString(text, mountPath, projectPath)
        agentFSPattern == extractAgentFSPattern(mountPath)
    IN  IF agentFSPattern # <<>>
        THEN ReplaceCurrentDirRelative(
                 ReplaceParentRelative(afterAbsolute, agentFSPattern), agentFSPattern)
        ELSE afterAbsolute

\* The path translation at rest: a path `value`, the project and mount directories
\* of the session, and no result yet.
PathInput(value, projectPath, mountPath) ==
    [pc |-> "input", value |-> value, projectPath |-> projectPath,
     mountPath |-> mountPath, result |-> <<>>]

\* normalizePath is applied to the path.
NormalizePath ==
    /\ rewrite.pc = "input"
    /\ rewrite' = [rewrite EXCEPT !.pc = "normal",
                                  !.result = normalizePath(rewrite.value)]
    /\ UNCHANGED <<clientVars, trackVars>>
    /\ UNCHANGED <<initializingSessions, handlers, mountProcesses, cli, hostEvents, kv,
                   alive>>

\* normalizePath is applied to what normalizePath returned.
NormalizeAgain ==
    /\ rewrite.pc = "normal"
    /\ rewrite' = [rewrite EXCEPT !.pc = "normal2",
                                  !.result = normalizePath(rewrite.result)]
    /\ UNCHANGED <<clientVars, trackVars>>
    /\ UNCHANGED <<initializingSessions, handlers, mountProcesses, cli, hostEvents, kv,
                   alive>>

\* toMountPath is applied to the path.
ToMountPath ==
    /\ rewrite.pc = "input"
    /\ rewrite' = [rewrite EXCEPT
            !.pc = "mount",
            !.result = toMountPath(rewrite.value, rewrite.projectPath,
                                   rewrite.mountPath)]
    /\ UNCHANGED <<clientVars, trackVars>>
    /\ UNCHANGED <<initializingSessions, handlers, mountProcesses, cli, hostEvents, kv,
                   alive>>

\* toProjectPath is applied to what toMountPath returned.
ToProjectPath ==
    /\ rewrite.pc = "mount"
    /\ rewrite' = [rewrite EXCEPT
            !.pc = "project",
            !.result = toProjectPath(rewrite.result, rewrite.projectPath,
                                     rewrite.mountPath)]
    /\ UNCHANGED <<clientVars, trackVars>>
    /\ UNCHANGED <<initializingSessions, handlers, mountProcesses, cli, hostEvents, kv,
                   alive>>

\* toProjectPath is applied to the path.
ToProjectPathOnly ==
    /\ rewrite.pc = "input"
    /\ rewrite' = [rewrite EXCEPT
            !.pc = "back",
            !.result = toProjectPath(rewrite.value, rewrite.projectPath,
                                     rewrite.mountPath)]
    /\ UNCHANGED <<clientVars, trackVars>>
    /\ UNCHANGED <<initializingSessions, handlers, mountProcesses, cli, hostEvents, kv,
                   alive>>

\* rewritePathsInString is applied to the path as a text, from the project directory
\* to the mount directory.
RewritePathsInString ==
    /\ rewrite.pc = "input"
    /\ rewrite' = [rewrite EXCEPT
            !.pc = "string",
            !.result = rewritePathsInString(rewrite.value, rewrite.projectPath,
                                            rewrite.mountPath)]
    /\ UNCHANGED <<clientVars, trackVars>>
    /\ UNCHANGED <<initializingSessions, handlers, mountProcesses, cli, hostEvents, kv,
                   alive>>

\* The before-hook of createPathRewriteHandler for a read / write / edit call of
\* session s with args.filePath = the path: result is args.filePath afterwards.
PathRewriteBefore(s) ==
    /\ rewrite.pc = "input"
    /\ rewrite' = [rewrite EXCEPT
            !.pc = "hooked",
            !.result =
                IF ~IS_LINUX \/ ~config.autoMount THEN rewrite.value
                ELSE IF getSession(s) = 0 \/ ~heap[getSession(s)].mount.mounted
                THEN rewrite.value
                ELSE LET rewritten == toMountPath(rewrite.value, rewrite.projectPath,
                                                  rewrite.mountPath)
                     IN  IF rewritten # rewrite.value THEN rewritten
                         ELSE rewrite.value]
    /\ UNCHANGED <<clientVars, trackVars>>
    /\ UNCHANGED <<initializingSessions, handlers, mountProcesses, cli, hostEvents, kv,
                   alive>>

\* What the host hands to the after-hook for a call whose title, output and
\* metadata.filepath are all the text.
ToolOutput(text) ==
    [title |-> text, output |-> text, metadata |-> [filepath |-> text]]

\* The handler createPathRewriteAfterHandler returns, on a call of session s with
\* the output object `output`: the output object afterwards.
pathRewriteAfterHandler(s, output) ==
    IF getSession(s) = 0 \/ ~heap[getSession(s)].mount.mounted
    THEN output
    ELSE [output EXCEPT
            !.output =
                IF output.output # <<>>
                THEN rewritePathsInOutput(output.output, rewrite.mountPath,
                                          rewrite.projectPath)
                ELSE output.output,
            !.title =
                IF output.title # <<>>
                THEN rewritePathsInOutput(output.title, rewrite.mountPath,
                                          rewrite.projectPath)
                ELSE output.title]

\* The after-hook of createPathRewriteAfterHandler for a call of session s: result is
\* the output object afterwards.
PathRewriteAfter(s) ==
    /\ rewrite.pc = "input"
    /\ rewrite' = [rewrite EXCEPT
            !.pc = "after",
            !.result = pathRewriteAfterHandler(s, ToolOutput(rewrite.value))]
    /\ UNCHANGED <<clientVars, trackVars>>
    /\ UNCHANGED <<initializingSessions, handlers, mountProcesses, cli, hostEvents, kv,
                   alive>>

\* tool.execute.before as AgentFSPlugin registers it, for a read / write / edit call
\* of session s with args.filePath = the path: it calls the path rewrite handler and
\* nothing else. result is args.filePath afterwards.
toolExecuteBefore(s) ==
    /\ rewrite.pc = "input"
    /\ rewrite' = [rewrite EXCEPT
            !.pc = "pluginBefore",
            !.result =
                IF ~IS_LINUX \/ ~config.autoMount THEN rewrite.value
                ELSE IF getSession(s) = 0 \/ ~heap[getSession(s)].mount.mounted
                THEN rewrite.value
                ELSE LET rewritten == toMountPath(rewrite.value, rewrite.projectPath,
                                                  rewrite.mountPath)
                     IN  IF rewritten # rewrite.value THEN rewritten
                         ELSE rewrite.value]
    /\ UNCHANGED <<clientVars, trackVars>>
    /\ UNCHANGED <<initializingSessions, handlers, mountProcesses, cli, hostEvents, kv,
                   alive>>

\* tool.execute.after as AgentFSPlugin registers it, for the same call once the tool
\* ran and reported the file it worked on as title, output and metadata.filepath: it
\* calls the path rewrite after-handler and nothing else. result is the output
\* object afterwards.
toolExecuteAfter(s) ==
    /\ rewrite.pc = "pluginBefore"
    /\ rewrite' = [rewrite EXCEPT
            !.pc = "pluginAfter",
            !.result = pathRewriteAfterHandler(s, ToolOutput(rewrite.result))]
    /\ UNCHANGED <<clientVars, trackVars>>
    /\ UNCHANGED <<initializingSessions, handlers, mountProcesses, cli, hostEvents, kv,
                   alive>>

\* No session event was delivered and no mount was attempted.
NoSessionEvents ==
    /\ initializingSessions = {}
    /\ handlers = EmptyBag
    /\ mountProcesses = [s \in SessionIds |-> 0]
    /\ cli = [s \in SessionIds |->
                [mountOverlay |-> 0, spawned |-> 0, raised |-> 0, toasts |-> 0,
                 kills |-> 0, unmounts |-> 0, primaryFailed |-> 0, umounts |-> 0]]
    /\ hostEvents = [s \in SessionIds |-> [created |-> 0, status |-> 0, deleted |-> 0]]
    /\ kv = [s \in SessionIds |-> [k \in MetaKeys |-> ""]]
    /\ alive = {}

\* No session event was delivered, and no path was given to the path translation.
HookInit ==
    /\ NoSessionEvents
    /\ rewrite = PathInput(<<>>, <<"/">>, <<"/">>)

TrackInit ==
    /\ toolCallStarts = [k \in Keys |-> NoStartData]
    /\ promises = <<>>
    /\ ends = EmptyBag
    /\ delivered = [k \in Keys |-> [begin |-> 0, end |-> 0]]
    /\ endResult = [k \in Keys |-> "none"]
    /\ beforeRejected = {}

\* The toolTracking defaults: track every tool, exclude none.
DefaultConfig ==
    [autoMount |-> TRUE,
     toolTracking |-> [enabled |-> TRUE, trackAll |-> TRUE, excludeTools |-> {}]]

(***************************************************************************)
(* SpecClient: the exported client functions called directly, with their   *)
(* awaits interleaved in every order.                                      *)
(***************************************************************************)
InitClient == ClientInit /\ TrackInit /\ HookInit /\ config = DefaultConfig

NextClient ==
    \/ \E s \in SessionIds : InvokeCreate("createSessionContext", s)
    \/ \E s \in SessionIds : InvokeCreate("createSession", s)
    \/ \E s \in SessionIds : InvokeOpenDatabase(s)
    \/ \E s \in SessionIds : InvokeCloseDatabase(s)
    \/ \E s \in SessionIds : InvokeCloseSession(s)
    \/ \E i \in DOMAIN calls : MkdirDone(i)
    \/ \E i \in DOMAIN calls : CreateSessionOpen(i)
    \/ \E i \in DOMAIN calls : OpenDone(i)
    \/ \E i \in DOMAIN calls : PragmaDone(i)
    \/ \E i \in DOMAIN calls : CloseDone(i)

SpecClient == InitClient /\ [][NextClient]_vars

(***************************************************************************)
(* The registry after `await createSession(config, "s1", dir)` returned,   *)
(* as every test of the tracker begins.                                    *)
(***************************************************************************)
SessionOpen ==
    /\ sessions = [s \in SessionIds |-> 1]
    /\ heap = <<[NewContext("s1") EXCEPT !.agent = 1]>>
    /\ handles = <<NewHandle("s1")>>
    /\ calls = <<>>
    /\ ncalls = 0
    /\ db = [s \in SessionIds |-> <<>>]

(***************************************************************************)
(* Spec: the tracker on an open session under every tracking policy.  The  *)
(* host delivers before/after events for a read_file call and a tools_list *)
(* call in any order and any number (duplicates, ends without a begin);    *)
(* every store operation may fail.                                         *)
(***************************************************************************)
HostCalls == {"c1", "x1"}
HostOutputs == {OutDone, OutErrorText}

Init ==
    /\ SessionOpen
    /\ TrackInit
    /\ HookInit
    /\ config \in {[DefaultConfig EXCEPT !.toolTracking = t] : t \in TrackingPolicies}

Next ==
    \/ \E s \in SessionIds, c \in HostCalls :
          Begins < MaxBegins /\ BeforeHandler(s, c)
    \/ \E s \in SessionIds, c \in HostCalls, o \in HostOutputs :
          Ends < MaxEnds /\ AfterHandler(s, c, o)
    \/ \E p \in DOMAIN promises : StartSettle(p)
    \/ \E e \in BagToSet(ends) : AfterGotId(e)
    \/ \E e \in BagToSet(ends) : AfterUpdateSettle(e)
    \/ \E e \in BagToSet(ends) : AfterRecordSettle(e)

Spec == Init /\ [][Next]_vars

(***************************************************************************)
(* SpecPairs: the tracker on an open session with the default policy and a *)
(* host that delivers, for each of three calls of one tool, one begin and  *)
(* then one end, the calls interleaved in every order.                     *)
(***************************************************************************)
PairCalls == {"c1", "c2", "c3"}
PairOutputs == {OutDone, OutErrorText}

InitPairs ==
    /\ SessionOpen
    /\ TrackInit
    /\ HookInit
    /\ config = DefaultConfig

NextPairs ==
    \/ \E s \in SessionIds, c \in PairCalls :
          /\ delivered[makeCallKey(s, c)].begin = 0
          /\ BeforeHandler(s, c)
    \/ \E s \in SessionIds, c \in PairCalls, o \in PairOutputs :
          /\ delivered[makeCallKey(s, c)].begin = 1
          /\ delivered[makeCallKey(s, c)].end = 0
          /\ AfterHandler(s, c, o)
    \/ \E p \in DOMAIN promises : StartSettle(p)
    \/ \E e \in BagToSet(ends) : AfterGotId(e)
    \/ \E e \in BagToSet(ends) : AfterUpdateSettle(e)
    \/ \E e \in BagToSet(ends) : AfterRecordSettle(e)

SpecPairs == InitPairs /\ [][NextPairs]_vars

(***************************************************************************)
(* SpecOutcome: as SpecPairs, for two calls and every kind of tool output. *)
(***************************************************************************)
OutcomeCalls == {"c1", "c2"}

NextOutcome ==
    \/ \E s \in SessionIds, c \in OutcomeCalls :
          /\ delivered[makeCallKey(s, c)].begin = 0
          /\ BeforeHandler(s, c)
    \/ \E s \in SessionIds, c \in OutcomeCalls, o \in Outputs :
          /\ delivered[makeCallKey(s, c)].begin = 1
          /\ delivered[makeCallKey(s, c)].end = 0
          /\ AfterHandler(s, c, o)
    \/ \E p \in DOMAIN promises : StartSettle(p)
    \/ \E e \in BagToSet(ends) : AfterGotId(e)
    \/ \E e \in BagToSet(ends) : AfterUpdateSettle(e)
    \/ \E e \in BagToSet(ends) : AfterRecordSettle(e)

SpecOutcome == InitPairs /\ [][NextOutcome]_vars

(***************************************************************************)
(* SpecDegraded: the tracker while a caller creates, opens and closes the  *)
(* session, one client call at a time.  The session may be missing, or     *)
(* present without a store handle (createSessionContext without            *)
(* openDatabase, as initializeSession leaves it after a successful mount,  *)
(* or after closeDatabase).                                                *)
(***************************************************************************)
DegradedCalls == {"c1"}

InitDegraded ==
    /\ ClientInit
    /\ TrackInit
    /\ HookInit
    /\ config = DefaultConfig

NextDegraded ==
    \/ \E s \in SessionIds : calls = <<>> /\ InvokeCreate("createSessionContext", s)
    \/ \E s \in SessionIds : calls = <<>> /\ InvokeCreate("createSession", s)
    \/ \E s \in SessionIds : calls = <<>> /\ InvokeOpenDatabase(s)
    \/ \E s \in SessionIds : calls = <<>> /\ InvokeCloseDatabase(s)
    \/ \E s \in SessionIds : calls = <<>> /\ InvokeCloseSession(s)
    \/ \E i \in DOMAIN calls : MkdirDone(i)
    \/ \E i \in DOMAIN calls : CreateSessionOpen(i)
    \/ \E i \in DOMAIN calls : OpenDone(i)
    \/ \E i \in DOMAIN calls : PragmaDone(i)
    \/ \E i \in DOMAIN calls : CloseDone(i)
    \/ \E s \in SessionIds, c \in DegradedCalls :
          Begins < MaxBegins /\ BeforeHandler(s, c)
    \/ \E s \in SessionIds, c \in DegradedCalls, o \in HostOutputs :
          Ends < MaxEnds /\ AfterHandler(s, c, o)
    \/ \E p \in DOMAIN promises : StartSettle(p)
    \/ \E e \in BagToSet(ends) : AfterGotId(e)
    \/ \E e \in BagToSet(ends) : AfterUpdateSettle(e)
    \/ \E e \in BagToSet(ends) : AfterRecordSettle(e)

SpecDegraded == InitDegraded /\ [][NextDegraded]_vars

(***************************************************************************)
(* SpecFallback: the tracker while a caller creates the session with       *)
(* createSession, so that a begin may find no session (and request no      *)
(* pending id) and the end of the same call find the session and its       *)
(* store.  Every store operation may fail.                                 *)
(***************************************************************************)
NextFallback ==
    \/ \E s \in SessionIds : calls = <<>> /\ InvokeCreate("createSession", s)
    \/ \E i \in DOMAIN calls : MkdirDone(i)
    \/ \E i \in DOMAIN calls : CreateSessionOpen(i)
    \/ \E i \in DOMAIN calls : OpenDone(i)
    \/ \E i \in DOMAIN calls : PragmaDone(i)
    \/ \E s \in SessionIds, c \in DegradedCalls :
          Begins < MaxBegins /\ BeforeHandler(s, c)
    \/ \E s \in SessionIds, c \in DegradedCalls, o \in HostOutputs :
          Ends < MaxEnds /\ AfterHandler(s, c, o)
    \/ \E p \in DOMAIN promises : StartSettle(p)
    \/ \E e \in BagToSet(ends) : AfterGotId(e)
    \/ \E e \in BagToSet(ends) : AfterUpdateSettle(e)
    \/ \E e \in BagToSet(ends) : AfterRecordSettle(e)

SpecFallback == InitDegraded /\ [][NextFallback]_vars

(***************************************************************************)
(* SpecSession: the session event handler.  The host delivers              *)
(* session.created, session.status and session.deleted events for an id in *)
(* any order, duplicated and overlapping; every external call may fail.    *)
(***************************************************************************)
InitSession ==
    /\ ClientInit
    /\ TrackInit
    /\ HookInit
    /\ config \in {[DefaultConfig EXCEPT !.autoMount = a] : a \in BOOLEAN}

NextSession ==
    \/ \E s \in SessionIds : SessionBegins < MaxSessionBegins /\ SessionCreated(s)
    \/ \E s \in SessionIds : SessionBegins < MaxSessionBegins /\ SessionStatus(s)
    \/ \E s \in SessionIds : SessionEnds < MaxSessionEnds /\ SessionDeleted(s)
    \/ \E h \in BagToSet(handlers) : InitMkdirDone(h)
    \/ \E h \in BagToSet(handlers) : InitContextReady(h)
    \/ \E h \in BagToSet(handlers) : MountWhichDone(h)
    \/ \E h \in BagToSet(handlers) : MountInitDone(h)
    \/ \E h \in BagToSet(handlers) : MountSleepDone(h)
    \/ \E h \in BagToSet(handlers) : MountVerifyDone(h)
    \/ \E h \in BagToSet(handlers) : InitOpenDone(h)
    \/ \E h \in BagToSet(handlers) : InitPragmaDone(h)
    \/ \E h \in BagToSet(handlers) : InitOpened(h)
    \/ \E h \in BagToSet(handlers) : InitMetaDone(h)
    \/ \E h \in BagToSet(handlers) : CleanupEndedAtDone(h)
    \/ \E h \in BagToSet(handlers) : CleanupCloseDbDone(h)
    \/ \E h \in BagToSet(handlers) : CleanupDbClosed(h)
    \/ \E h \in BagToSet(handlers) : CleanupUnmountDone(h)
    \/ \E h \in BagToSet(handlers) : CleanupUmountDone(h)
    \/ \E h \in BagToSet(handlers) : CleanupUnmounted(h)
    \/ \E h \in BagToSet(handlers) : CleanupCloseSessDone(h)

SpecSession == InitSession /\ [][NextSession]_vars

(***************************************************************************)
(* SpecSessionExits: the session event handler as in SpecSession, in an    *)
(* environment where a mount process may exit by itself at any time.       *)
(***************************************************************************)
NextSessionExits ==
    \/ \E s \in SessionIds : SessionBegins < MaxSessionBegins /\ SessionCreated(s)
    \/ \E s \in SessionIds : SessionBegins < MaxSessionBegins /\ SessionStatus(s)
    \/ \E s \in SessionIds : SessionEnds < MaxSessionEnds /\ SessionDeleted(s)
    \/ \E h \in BagToSet(handlers) : InitMkdirDone(h)
    \/ \E h \in BagToSet(handlers) : InitContextReady(h)
    \/ \E h \in BagToSet(handlers) : MountWhichDone(h)
    \/ \E h \in BagToSet(handlers) : MountInitDone(h)
    \/ \E h \in BagToSet(handlers) : MountSleepDone(h)
    \/ \E h \in BagToSet(handlers) : MountVerifyDone(h)
    \/ \E s \in SessionIds, pid \in 1..MaxSessionBegins : MountExits(s, pid)
    \/ \E h \in BagToSet(handlers) : InitOpenDone(h)
    \/ \E h \in BagToSet(handlers) : InitPragmaDone(h)
    \/ \E h \in BagToSet(handlers) : InitOpened(h)
    \/ \E h \in BagToSet(handlers) : InitMetaDone(h)
    \/ \E h \in BagToSet(handlers) : CleanupEndedAtDone(h)
    \/ \E h \in BagToSet(handlers) : CleanupCloseDbDone(h)
    \/ \E h \in BagToSet(handlers) : CleanupDbClosed(h)
    \/ \E h \in BagToSet(handlers) : CleanupUnmountDone(h)
    \/ \E h \in BagToSet(handlers) : CleanupUmountDone(h)
    \/ \E h \in BagToSet(handlers) : CleanupUnmounted(h)
    \/ \E h \in BagToSet(handlers) : CleanupCloseSessDone(h)

SpecSessionExits == InitSession /\ [][NextSessionExits]_vars

(***************************************************************************)
(* SpecOverlay: mountOverlay and unmountOverlay called directly on the      *)
(* MountInfo of a registered session (after createSession, which opened    *)
(* the store, or after createSessionContext, which did not), overlapping    *)
(* with each other and with the teardown of session.deleted; the mount      *)
(* process may exit at any time and every external call may fail.  No      *)
(* store is opened here, so closeSession, which runs after closeDatabase   *)
(* has unset the agent, never has a handle to close.                       *)
(***************************************************************************)
InitOverlay ==
    /\ \/ SessionOpen
       \/ /\ sessions = [s \in SessionIds |-> 1]
          /\ heap = <<NewContext("s1")>>
          /\ handles = <<>>
          /\ calls = <<>>
          /\ ncalls = 0
          /\ db = [s \in SessionIds |-> <<>>]
    /\ TrackInit
    /\ HookInit
    /\ config = DefaultConfig

NextOverlay ==
    \/ \E s \in SessionIds : InvokeMountOverlay(s)
    \/ \E s \in SessionIds : InvokeUnmountOverlay(s)
    \/ \E s \in SessionIds : SessionEnds < MaxSessionEnds /\ SessionDeleted(s)
    \/ \E h \in BagToSet(handlers) : MountWhichDone(h)
    \/ \E h \in BagToSet(handlers) : MountInitDone(h)
    \/ \E h \in BagToSet(handlers) : MountSleepDone(h)
    \/ \E h \in BagToSet(handlers) : MountVerifyDone(h)
    \/ \E s \in SessionIds, pid \in 1..MaxCalls : MountExits(s, pid)
    \/ \E h \in BagToSet(handlers) : CleanupEndedAtDone(h)
    \/ \E h \in BagToSet(handlers) : CleanupCloseDbDone(h)
    \/ \E h \in BagToSet(handlers) : CleanupDbClosed(h)
    \/ \E h \in BagToSet(handlers) : CleanupUnmountDone(h)
    \/ \E h \in BagToSet(handlers) : CleanupUmountDone(h)
    \/ \E h \in BagToSet(handlers) : CleanupUnmounted(h)

SpecOverlay == InitOverlay /\ [][NextOverlay]_vars

(***************************************************************************)
(* SpecPaths: the path translation applied to every path of at most         *)
(* MaxPathLen characters, for every pair of project and mount directories  *)
(* of Roots: normalizePath, once and twice; toMountPath, then toProjectPath on its result; toProjectPath   *)
(* alone; rewritePathsInString; and the before-hook on a call whose filePath is the path, with    *)
(* the session mounted or absent.                                          *)
(***************************************************************************)
\* The state initializeSession leaves after session.created and a successful mount.
SessionMounted ==
    /\ sessions = [s \in SessionIds |-> 1]
    /\ heap = <<[NewContext("s1") EXCEPT
                    !.mount = [mounted |-> TRUE, pid |-> 1, error |-> ""]]>>
    /\ handles = <<>>
    /\ calls = <<>>
    /\ ncalls = 0
    /\ db = [s \in SessionIds |-> <<>>]
    /\ initializingSessions = {}
    /\ handlers = EmptyBag
    /\ mountProcesses = [s \in SessionIds |-> 1]
    /\ cli = [s \in SessionIds |->
                [mountOverlay |-> 1, spawned |-> 1, raised |-> 0, toasts |-> 0,
                 kills |-> 0, unmounts |-> 0, primaryFailed |-> 0, umounts |-> 0]]
    /\ hostEvents = [s \in SessionIds |-> [created |-> 1, status |-> 0, deleted |-> 0]]
    /\ kv = [s \in SessionIds |-> [k \in MetaKeys |-> ""]]
    /\ alive = {<<"s1", 1>>}

InitPaths ==
    /\ \/ SessionMounted
       \/ ClientInit /\ NoSessionEvents
    /\ TrackInit
    /\ config = DefaultConfig
    /\ rewrite \in {PathInput(value, projectPath, mountPath) :
                        value \in Paths, projectPath \in Roots, mountPath \in Roots}

NextPaths ==
    \/ NormalizePath
    \/ NormalizeAgain
    \/ ToMountPath
    \/ ToProjectPath
    \/ ToProjectPathOnly
    \/ RewritePathsInString
    \/ \E s \in SessionIds : PathRewriteBefore(s)

SpecPaths == InitPaths /\ [][NextPaths]_vars

(***************************************************************************)
(* SpecStrings: rewritePathsInString and the after-hook applied to every   *)
(* text of at most MaxTextLen characters (path characters, a space and a   *)
(* double quote), for every pair of project and mount directories of       *)
(* Roots, with the session mounted, open without a mount, or absent.       *)
(***************************************************************************)
MaxTextLen == 4

TextChars == {"/", "a", "b", " ", "\""}

Texts == UNION {[1..n -> TextChars] : n \in 0..MaxTextLen}

InitStrings ==
    /\ \/ SessionMounted
       \/ SessionOpen /\ NoSessionEvents
       \/ ClientInit /\ NoSessionEvents
    /\ TrackInit
    /\ config = DefaultConfig
    /\ rewrite \in {PathInput(value, projectPath, mountPath) :
                        value \in Texts, projectPath \in Roots, mountPath \in Roots}

NextStrings ==
    \/ RewritePathsInString
    \/ \E s \in SessionIds : PathRewriteAfter(s)

SpecStrings == InitStrings /\ [][NextStrings]_vars

(***************************************************************************)
(* SpecPlugin: the tool hooks that AgentFSPlugin registers with the host,  *)
(* delivered for one call of an initialized session (its store open, or    *)
(* its overlay mounted) whose filePath is any path of at most MaxPathLen   *)
(* characters. Tool tracking is enabled for every tool.                    *)
(***************************************************************************)
InitPlugin ==
    /\ \/ SessionMounted
       \/ SessionOpen /\ NoSessionEvents
    /\ TrackInit
    /\ config = DefaultConfig
    /\ rewrite \in {PathInput(value, projectPath, mountPath) :
                        value \in Paths, projectPath \in Roots, mountPath \in Roots}

NextPlugin ==
    \/ \E s \in SessionIds : toolExecuteBefore(s)
    \/ \E s \in SessionIds : toolExecuteAfter(s)

SpecPlugin == InitPlugin /\ [][NextPlugin]_vars

(***************************************************************************)
(* Properties of the tool-call tracker.                                    *)
(***************************************************************************)

\* The rows of session s that belong to call c (each call has its own arguments).
RowsOf(s, c) == {i \in DOMAIN db[s] : db[s][i].parameters = ArgsOf(c)}

Terminal(row) == row.status \in {"success", "error"}

TerminalRowsOf(s, c) == {i \in RowsOf(s, c) : Terminal(db[s][i])}

\* The promises of the tools.start() calls issued for key k.
PromisesOf(k) == {p \in DOMAIN promises : promises[p].key = k}

\* The end of key k reached the store.
Completed(k) == endResult[k] \in {"updated", "recorded"}

\* The policy bypasses the tool: tracking disabled, trackAll false, or name excluded.
Bypassed(cfg, toolName) ==
    \/ ~cfg.toolTracking.enabled
    \/ ~cfg.toolTracking.trackAll
    \/ toolName \in cfg.toolTracking.excludeTools

\* The two-tier classification: a payload that parses as a structured object is an
\* error exactly when its error field is a non-empty string; any other text is an
\* error exactly when it begins with an Error: / error: marker.
ParsesAsStructured(output) ==
    /\ Len(output) >= 2
    /\ output[1] = "{"
    /\ output[Len(output)] = "}"

HasNonEmptyErrorField(output) ==
    /\ Includes(output, <<"\"", "e", "r", "r", "o", "r", "\"", ":", "\"">>)
    /\ ~Includes(output, <<"\"", "e", "r", "r", "o", "r", "\"", ":", "\"", "\"">>)

ClassifiedError(output) ==
    IF ParsesAsStructured(output)
    THEN HasNonEmptyErrorField(output)
    ELSE \/ StartsWith(output, <<"E", "r", "r", "o", "r", ":">>)
         \/ StartsWith(output, <<"e", "r", "r", "o", "r", ":">>)

\* C1 (as stated; violated under Spec): while no end was delivered for a key, the
\* begins delivered for it issued at most one tools.start() call and the store holds
\* at most one row for the call, however often the begin was repeated.
C1_DuplicateBeginIsNoOp ==
    \A s \in SessionIds, c \in CallIds :
        delivered[makeCallKey(s, c)].end = 0 =>
            /\ Cardinality(PromisesOf(makeCallKey(s, c))) <= 1
            /\ Cardinality(RowsOf(s, c)) <= 1

\* C2 (as stated; violated under SpecOutcome): after one begin and one end whose
\* update reached the store, the call has exactly one row, the row its begin
\* created, and for a success output that row has status success.
C2_BeginEndSuccess ==
    \A s \in SessionIds, c \in CallIds :
        endResult[makeCallKey(s, c)] = "updated" =>
            /\ Cardinality(RowsOf(s, c)) = 1
            /\ \A p \in PromisesOf(makeCallKey(s, c)) : RowsOf(s, c) = {promises[p].value}
            /\ \A i \in RowsOf(s, c) :
                  ~ClassifiedError(db[s][i].output) => db[s][i].status = "success"

\* C3: three calls of one tool, begun and ended concurrently in any order: no call
\* ever has two rows, a row is terminal only after the end of its own call reached
\* the store (no cross-talk), an end that updated a row updated the row its own begin
\* created, and once all three ends reached the store it holds exactly three rows,
\* all terminal.
C3_ThreeConcurrentCalls ==
    \A s \in SessionIds :
        /\ \A c \in PairCalls :
              /\ Cardinality(RowsOf(s, c)) <= 1
              /\ TerminalRowsOf(s, c) # {} => Completed(makeCallKey(s, c))
              /\ Completed(makeCallKey(s, c)) => Cardinality(TerminalRowsOf(s, c)) = 1
              /\ endResult[makeCallKey(s, c)] = "updated" =>
                    \A p \in PromisesOf(makeCallKey(s, c)) :
                        TerminalRowsOf(s, c) = {promises[p].value}
        /\ (\A c \in PairCalls : Completed(makeCallKey(s, c))) =>
              /\ Len(db[s]) = 3
              /\ \A i \in DOMAIN db[s] : Terminal(db[s][i])

\* C3 witness: all three ends updated their rows, the rows were created in another
\* order than the calls are named, and the outcomes differ.
C3_Witness ==
    /\ \A c \in PairCalls : endResult[makeCallKey("s1", c)] = "updated"
    /\ Len(db["s1"]) = 3
    /\ db["s1"][1].parameters = ArgsOf("c3")
    /\ db["s1"][1].status = "error"
    /\ db["s1"][3].parameters = ArgsOf("c1")
    /\ db["s1"][3].status = "success"

\* C4 (as stated; violated under Spec): the store holds at most one terminal row per
\* (sessionId, callId), whatever begin and end events were delivered.
C4_AtMostOneTerminal ==
    \A s \in SessionIds, c \in CallIds : Cardinality(TerminalRowsOf(s, c)) <= 1

\* C4 (amended): the terminal rows of a (sessionId, callId) never outnumber the begin
\* events nor the end events delivered for it; a duplicate end, or an end without a
\* pending entry, adds none.
C4_TerminalPerBeginEndPair ==
    \A s \in SessionIds, c \in CallIds :
        Cardinality(TerminalRowsOf(s, c))
            <= Min(delivered[makeCallKey(s, c)].begin, delivered[makeCallKey(s, c)].end)

\* C4 witness: one begin and two ends for a key; the second end found no entry and
\* the call has its one terminal row.
C4_Witness ==
    /\ delivered[makeCallKey("s1", "c1")] = [begin |-> 1, end |-> 2]
    /\ endResult[makeCallKey("s1", "c1")] = "noEntry"
    /\ Cardinality(TerminalRowsOf("s1", "c1")) = 1

\* C5 (as stated; violated under Spec): from the return of begin until the end is
\* processed (the entry is in toolCallStarts), the store shows a pending row of the
\* call.
C5_PendingVisibleAfterBegin ==
    \A s \in SessionIds, c \in CallIds :
        (shouldTrackTool(config, ToolOf(c)) /\ toolCallStarts[makeCallKey(s, c)].present) =>
            \E i \in RowsOf(s, c) : db[s][i].status = "pending"

\* C5 (amended): once the tools.start() call of a begin resolved with a valid id, the
\* row with that id is the call's and stays pending until the end of that call
\* updates it: while the entry is in toolCallStarts, and while an end that took the
\* entry has not yet updated the row.
C5_PendingVisibleOnceStarted ==
    /\ \A s \in SessionIds, c \in CallIds :
          LET d == toolCallStarts[makeCallKey(s, c)] IN
          (d.present /\ d.pendingIdPromise # 0) =>
              LET p == promises[d.pendingIdPromise] IN
              (p.state = "resolved" /\ p.value > 0) =>
                  /\ p.value \in DOMAIN db[s]
                  /\ db[s][p.value] = PendingRow(ToolOf(c), ArgsOf(c))
    /\ \A e \in BagToSet(ends) :
          e.pc = "awaitId" =>
              LET p == promises[e.startData.pendingIdPromise] IN
              (p.state = "resolved" /\ p.value > 0) =>
                  db[handles[p.agent].sid][p.value] = PendingRow(p.tool, p.args)

\* C5 witness: a tools_list call is running (begun, not ended), its row is pending,
\* and the row of an earlier read_file call is already terminal.
C5_Witness ==
    /\ toolCallStarts[makeCallKey("s1", "x1")].present
    /\ delivered[makeCallKey("s1", "x1")].end = 0
    /\ \E i \in RowsOf("s1", "x1") : db["s1"][i] = PendingRow("tools_list", ArgsOf("x1"))
    /\ TerminalRowsOf("s1", "c1") # {}

\* C6: a tool the policy bypasses leaves no trace: no entry in toolCallStarts, no
\* tools.start() call, no suspended end, no end that did anything, and no row of
\* that tool name in the store, whatever else is tracked in the session.
C6_BypassedToolLeavesNoTrace ==
    \A s \in SessionIds, c \in CallIds :
        Bypassed(config, ToolOf(c)) =>
            /\ ~toolCallStarts[makeCallKey(s, c)].present
            /\ PromisesOf(makeCallKey(s, c)) = {}
            /\ \A e \in BagToSet(ends) : e.key # makeCallKey(s, c)
            /\ endResult[makeCallKey(s, c)] = "none"
            /\ \A i \in DOMAIN db[s] : db[s][i].name # ToolOf(c)

\* C6 witness: tools_list is excluded while tracking is on; a tools_list call was
\* begun and ended, and a read_file call of the same session has its row.
C6_Witness ==
    /\ config.toolTracking =
          [enabled |-> TRUE, trackAll |-> TRUE, excludeTools |-> {"tools_list"}]
    /\ delivered[makeCallKey("s1", "x1")] = [begin |-> 1, end |-> 1]
    /\ RowsOf("s1", "c1") # {}

\* C7 (as stated; violated under SpecDegraded): no begin ever rejects to its caller.
C7_BeginNeverRejects == beforeRejected = {}

\* C8 (as stated; violated under SpecOutcome): every terminal row has status error
\* exactly when the two-tier classification of its output says error.
C8_TwoTierClassification ==
    \A s \in SessionIds : \A i \in DOMAIN db[s] :
        Terminal(db[s][i]) =>
            (db[s][i].status = "error" <=> ClassifiedError(db[s][i].output))

\* C10 (as stated; violated under SpecClient): a Session in the registry is never
\* replaced by another Session for the same id.
C10_NoSessionOverwritten ==
    [][\A s \in SessionIds :
          sessions[s] # 0 => sessions'[s] \in {0, sessions[s]}]_vars

(***************************************************************************)
(* Properties of the session event handler.                                *)
(***************************************************************************)

\* The SessionContext objects (each with its MountInfo) ever created for id s.
ContextsOf(s) == {i \in DOMAIN heap : heap[i].sessionId = s}

\* The initializations of id s in progress.
InitsOf(s) == {h \in BagToSet(handlers) : h.kind = "init" /\ h.sid = s}

\* A session.created or session.status event for s is delivered in this step.
BeginTriggered(s) ==
    hostEvents'[s].created + hostEvents'[s].status
        > hostEvents[s].created + hostEvents[s].status

\* C9: a begin trigger (session.created or session.status) for an id that is in the
\* registry or initializing changes nothing; at most one initialization of an id is
\* in progress; the Sessions ever created for an id number at most one more than the
\* session.deleted events delivered for it (at most one while none was delivered),
\* and mountOverlay was called at most once per Session created.
C9_DuplicateBeginIgnored ==
    /\ [](\A s \in SessionIds :
            /\ Cardinality(InitsOf(s)) <= 1
            /\ \A h \in InitsOf(s) : CopiesIn(h, handlers) = 1
            /\ Cardinality(ContextsOf(s)) <= 1 + hostEvents[s].deleted
            /\ cli[s].mountOverlay <= Cardinality(ContextsOf(s)))
    /\ [][\A s \in SessionIds :
            (BeginTriggered(s) /\ (s \in initializingSessions \/ sessions[s] # 0)) =>
                UNCHANGED <<sessions, heap, handles, initializingSessions, handlers,
                            mountProcesses, cli>>]_vars

\* C9 witness: two begin events were delivered for the id and none to delete it; the
\* first initialization is still waiting for the mount to be verified, and there is
\* one Session and one mountOverlay call.
C9_Witness ==
    /\ hostEvents["s1"].created + hostEvents["s1"].status = 2
    /\ hostEvents["s1"].deleted = 0
    /\ "s1" \in initializingSessions
    /\ \E h \in InitsOf("s1") : h.pc = "verify"
    /\ Cardinality(ContextsOf("s1")) = 1
    /\ cli["s1"].mountOverlay = 1

\* The session.deleted handler h ends in this step, through its catch block or not.
CleanupEnds(h) ==
    /\ h.kind = "deleted"
    /\ BagCardinality(handlers') < BagCardinality(handlers)
    /\ CopiesIn(h, handlers') < CopiesIn(h, handlers)

\* C11 (as stated; violated under SpecSession): when the handler of a session.deleted
\* event for a registered Session ends, whatever failed on the way, the Session is
\* no longer the registered one and its overlay is no longer marked mounted.
C11_CleanupNotStuck ==
    [][\A h \in BagToSet(handlers) :
          CleanupEnds(h) =>
              /\ sessions'[h.sid] # h.context
              /\ ~heap'[h.context].mount.mounted]_vars

\* The session.deleted handler h issues the unmount command in this step.
TeardownUnmounts(h) ==
    /\ h.kind = "deleted"
    /\ h.pc = "dbClosed"
    /\ CopiesIn(h, handlers') < CopiesIn(h, handlers)
    /\ cli'[h.sid].unmounts > cli[h.sid].unmounts

\* The store handles ever opened for session id s.
HandlesOf(s) == {i \in DOMAIN handles : handles[i].sid = s}

\* C12: when the teardown of a session issues the unmount command, the Session holds
\* no store handle and every store handle opened for the session has been closed.
C12_CloseBeforeUnmount ==
    [][\A h \in BagToSet(handlers) :
          TeardownUnmounts(h) =>
              /\ heap[h.context].agent = 0
              /\ \A i \in HandlesOf(h.sid) : handles[i].closed]_vars

\* C12 witness: the teardown of a mounted session whose store was open has closed
\* the handle and is waiting for the unmount command it issued.
C12_Witness ==
    /\ \E h \in BagToSet(handlers) : h.kind = "deleted" /\ h.pc = "unmount"
    /\ HandlesOf("s1") # {}
    /\ \A i \in HandlesOf("s1") : handles[i].closes > 0 /\ handles[i].closed
    /\ cli["s1"].unmounts = 1

\* mountOverlay, called by the initialization h of a session, throws in this step.
InitMountRaises(h) ==
    /\ h.kind = "init"
    /\ h.pc \in {"which", "cliInit", "verified"}
    /\ CopiesIn(h, handlers') < CopiesIn(h, handlers)
    /\ cli'[h.sid].raised > cli[h.sid].raised

\* The initialization h writes the last of the session metadata in this step and
\* ends.
InitCompletes(h) ==
    /\ h.kind = "init"
    /\ h.pc = "metaPath"
    /\ CopiesIn(h, handlers') < CopiesIn(h, handlers)
    /\ kv'[h.sid]["session:projectPath"] # kv[h.sid]["session:projectPath"]

\* C13: when mountOverlay throws during the initialization of a session, mounted is
\* false, the message is stored in MountInfo.error and shown in a toast, and the
\* initialization of a Session still registered goes on to open its store; the
\* mount error is the first metadata written; and an initialization that wrote all
\* its metadata, with no session.deleted delivered, leaves the Session in the
\* registry, not mounted, the mount error in its metadata, its store handle open.
C13_MountFailureNotTerminal ==
    [][\A h \in BagToSet(handlers) :
          /\ InitMountRaises(h) =>
                /\ ~heap'[h.context].mount.mounted
                /\ heap'[h.context].mount.error # ""
                /\ cli'[h.sid].toasts = cli[h.sid].toasts + 1
                /\ sessions[h.sid] # 0 =>
                      \E g \in BagToSet(handlers') :
                          /\ g.kind = "init" /\ g.context = h.context
                          /\ g.pc \in {"open", "opened"}
          /\ (h.kind = "init" /\ h.pc = "opened" /\ heap[h.context].mount.error # ""
                 /\ heap[h.context].agent # 0
                 /\ CopiesIn(h, handlers') < CopiesIn(h, handlers)) =>
                \E g \in BagToSet(handlers') :
                    g.kind = "init" /\ g.context = h.context /\ g.pc = "metaError"
          /\ (InitCompletes(h) /\ hostEvents[h.sid].deleted = 0
                 /\ heap[h.context].mount.error # "") =>
                /\ sessions'[h.sid] = h.context
                /\ ~heap'[h.context].mount.mounted
                /\ kv'[h.sid]["session:mountError"] = heap'[h.context].mount.error
                /\ heap'[h.context].agent # 0
                /\ handles'[heap'[h.context].agent].open]_vars

\* C13 witness: the mount failed, the initialization is over, and the Session is
\* registered with an open store handle and the mount error in its metadata.
C13_Witness ==
    /\ InitsOf("s1") = {}
    /\ sessions["s1"] # 0
    /\ cli["s1"].raised = 1 /\ cli["s1"].toasts = 1
    /\ ~heap[sessions["s1"]].mount.mounted
    /\ heap[sessions["s1"]].mount.error # ""
    /\ kv["s1"]["session:mountError"] = heap[sessions["s1"]].mount.error
    /\ kv["s1"]["session:projectPath"] # ""
    /\ heap[sessions["s1"]].agent # 0
    /\ handles[heap[sessions["s1"]].agent].open

\* A session.status event for s is delivered in this step.
ResumeTriggered(s) == hostEvents'[s].status > hostEvents[s].status

\* The initialization h that a session.status event started ends in this step.
ResumeEnds(h) ==
    /\ h.kind = "init"
    /\ ~h.isNewSession
    /\ BagCardinality(handlers') < BagCardinality(handlers)
    /\ CopiesIn(h, handlers') < CopiesIn(h, handlers)

MountOverlayCalled(s) == cli'[s].mountOverlay > cli[s].mountOverlay

\* unmountOverlay is called directly on the MountInfo of s in this step.
UnmountOverlayCalled(s) ==
    /\ ncalls' > ncalls
    /\ cli'[s].mountOverlay = cli[s].mountOverlay

\* C15: a mountOverlay call on a MountInfo already mounted returns at once: no
\* lookup, init or mount process is started (nothing is left waiting, no process is
\* spawned, killed or born) and mounted, pid, error and mountProcesses are unchanged.
C15_MountOnMountedIsNoOp ==
    [][\A s \in SessionIds :
          (MountOverlayCalled(s) /\ sessions[s] # 0
             /\ heap[sessions[s]].mount.mounted) =>
              /\ UNCHANGED <<heap, mountProcesses, handlers, alive, sessions, handles>>
              /\ cli' = [cli EXCEPT ![s].mountOverlay = @ + 1]]_vars

\* C15 witness: a first call mounted the overlay, and a second call returned with
\* one process spawned in all and the MountInfo still mounted.
C15_Witness ==
    /\ sessions["s1"] # 0
    /\ ncalls = 2
    /\ cli["s1"].mountOverlay = 2
    /\ cli["s1"].spawned = 1
    /\ cli["s1"].raised = 0
    /\ handlers = EmptyBag
    /\ heap[sessions["s1"]].mount.mounted
    /\ heap[sessions["s1"]].mount.pid = 1
    /\ mountProcesses["s1"] = 1

\* C16: an unmountOverlay call on a MountInfo not mounted returns at once without
\* throwing: no kill, no unmount command, nothing left waiting, and the MountInfo
\* and mountProcesses are unchanged.
C16_UnmountOnUnmountedIsNoOp ==
    [][\A s \in SessionIds :
          (UnmountOverlayCalled(s) /\ sessions[s] # 0
             /\ ~heap[sessions[s]].mount.mounted) =>
              UNCHANGED <<heap, mountProcesses, handlers, alive, cli, sessions,
                          handles>>]_vars

\* C16 witness: a mount was spawned and failed its verification, leaving its process
\* in mountProcesses; unmountOverlay was then called and changed nothing.
C16_Witness ==
    /\ sessions["s1"] # 0
    /\ ncalls = 2
    /\ cli["s1"].mountOverlay = 1
    /\ cli["s1"].raised = 1
    /\ cli["s1"].kills = 0 /\ cli["s1"].unmounts = 0
    /\ handlers = EmptyBag
    /\ ~heap[sessions["s1"]].mount.mounted
    /\ mountProcesses["s1"] = 1

\* A mountOverlay call made directly (handler h) throws in this step.
MountOverlayRaises(h) ==
    /\ h.kind = "mountOverlay"
    /\ CopiesIn(h, handlers') < CopiesIn(h, handlers)
    /\ cli'[h.sid].raised > cli[h.sid].raised

\* C17 (as stated; violated under SpecOverlay): whenever mountOverlay throws, the
\* MountInfo it was given has mounted false and error set.
C17_RaiseSetsError ==
    [][\A h \in BagToSet(handlers) :
          MountOverlayRaises(h) =>
              /\ ~heap'[h.context].mount.mounted
              /\ heap'[h.context].mount.error # ""]_vars

\* C18 (as stated; violated under SpecSessionExits): whenever no handler is in
\* progress, a Session marked mounted has its mount process running.
C18_MountedOnlyWhileLive ==
    handlers = EmptyBag =>
        \A s \in SessionIds : \A c \in ContextsOf(s) :
            heap[c].mount.mounted => <<s, heap[c].mount.pid>> \in alive

(***************************************************************************)
(* Properties of the path translation.                                     *)
(***************************************************************************)

\* The normalized path is root itself or a descendant of it (root normalized too).
AtOrUnder(path, root) ==
    \/ root = <<"/">>
    \/ path = root
    \/ StartsWith(path, root \o <<"/">>)

\* The path given lies at or under the project directory, or the mount directory.
InsideProject == AtOrUnder(normalizePath(rewrite.value), normalizePath(rewrite.projectPath))
InsideMount == AtOrUnder(normalizePath(rewrite.value), normalizePath(rewrite.mountPath))

\* C19: for every path p at or under projectRoot, and every projectRoot and mountRoot
\* (the root directory included), toProjectPath(toMountPath(p, root, mount), root,
\* mount) is normalize(p).
C19_RoundTrip ==
    (rewrite.pc = "project" /\ InsideProject) =>
        rewrite.result = normalizePath(rewrite.value)

\* C19 witness: the path a/b/ (relative, with a trailing slash), which lies under the
\* project directory /a, went through both functions with mount directory /b and
\* came back as /a/b.
C19_Witness ==
    /\ rewrite.pc = "project"
    /\ rewrite.value = <<"a", "/", "b", "/">>
    /\ rewrite.projectPath = <<"/", "a">>
    /\ rewrite.mountPath = <<"/", "b">>
    /\ rewrite.result = <<"/", "a", "/", "b">>

\* C20 (as stated; violated under SpecPaths): a path outside the project directory
\* is returned as it was given by toMountPath and left as it was given by the
\* before-hook, and a path outside the mount directory is returned as it was given
\* by toProjectPath, whatever its form.
C20_OutsideUnchanged ==
    /\ (rewrite.pc \in {"mount", "hooked"} /\ ~InsideProject) =>
          rewrite.result = rewrite.value
    /\ (rewrite.pc = "back" /\ ~InsideMount) => rewrite.result = rewrite.value

\* The normalized path, which lies at or under the normalized directory `from`,
\* moved to the same place under the normalized directory `to`.
Rebase(path, from, to) ==
    LET suffix == IF from = <<"/">>
                  THEN (IF path = <<"/">> THEN <<>> ELSE path)
                  ELSE SubSeq(path, Len(from) + 1, Len(path))
    IN  IF to = <<"/">>
        THEN (IF suffix = <<>> THEN <<"/">> ELSE suffix)
        ELSE to \o suffix

\* C21 (as stated; violated under SpecPaths): for every path outside the project
\* directory, toProjectPath(toMountPath(p, root, mount), root, mount) is normalize(p),
\* also when p lies at or under the mount directory.
C21_OutsideRoundTrip ==
    (rewrite.pc = "project" /\ ~InsideProject) =>
        rewrite.result = normalizePath(rewrite.value)

\* C21 (amended): for a path outside the project directory the composition yields
\* normalize(p) when p is outside the mount directory too, and the place of p under
\* the project directory when p lies at or under the mount directory.
C21_OutsideRoundTripUnlessMounted ==
    (rewrite.pc = "project" /\ ~InsideProject) =>
        rewrite.result =
            IF InsideMount
            THEN Rebase(normalizePath(rewrite.value), normalizePath(rewrite.mountPath),
                        normalizePath(rewrite.projectPath))
            ELSE normalizePath(rewrite.value)

\* C21 witness: /ab/ is outside the project directory /a and the mount directory /b,
\* and comes back from both functions as /ab.
C21_Witness ==
    /\ rewrite.pc = "project"
    /\ rewrite.value = <<"/", "a", "b", "/">>
    /\ rewrite.projectPath = <<"/", "a">>
    /\ rewrite.mountPath = <<"/", "b">>
    /\ rewrite.result = <<"/", "a", "b">>

\* The normalized path begins with the characters of root without being root or a
\* descendant of it: another entry that shares a string prefix with root.
SharesPrefixOnly(path, root) == StartsWith(path, root) /\ ~AtOrUnder(path, root)

\* The positions of text at which an occurrence of sub ends.
OccurrenceEnds(text, sub) ==
    {i + Len(sub) - 1 : i \in {j \in 1..(Len(text) - Len(sub) + 1) :
                                  SubSeq(text, j, j + Len(sub) - 1) = sub}}

\* The character after position `last` of text is a path separator, whitespace or a
\* quote, or there is none.
AtBoundary(text, last) ==
    last = Len(text) \/ text[last + 1] \in {"/", " ", "\t", "\n", "\"", "'"}

\* C22: a path that shares a string prefix with the source directory without lying
\* at or under it is not translated by toMountPath or toProjectPath, and
\* rewritePathsInString leaves a text unchanged when no occurrence of the source
\* directory in it is followed by a path separator, whitespace, a quote or the end
\* of the text.
C22_SamePrefixNotRewritten ==
    /\ (rewrite.pc = "mount"
          /\ SharesPrefixOnly(normalizePath(rewrite.value),
                              normalizePath(rewrite.projectPath))) =>
          rewrite.result = normalizePath(rewrite.value)
    /\ (rewrite.pc = "back"
          /\ SharesPrefixOnly(normalizePath(rewrite.value),
                              normalizePath(rewrite.mountPath))) =>
          rewrite.result = normalizePath(rewrite.value)
    /\ (rewrite.pc = "string"
          /\ \A last \in OccurrenceEnds(rewrite.value,
                                         normalizePath(rewrite.projectPath)) :
                ~AtBoundary(rewrite.value, last)) =>
          rewrite.result = rewrite.value

\* C22 witness: /a.b begins with the project directory /a but is another entry;
\* rewritePathsInString towards /b returned it as it was.
C22_Witness ==
    /\ rewrite.pc = "string"
    /\ rewrite.value = <<"/", "a", ".", "b">>
    /\ rewrite.projectPath = <<"/", "a">>
    /\ rewrite.mountPath = <<"/", "b">>
    /\ rewrite.result = rewrite.value

\* The occurrence of sub that ends at position `last` of text follows a character of
\* a file name: it is the inner or tail part of a longer path.
InsideLongerPath(text, last, sub) ==
    /\ last - Len(sub) >= 1
    /\ text[last - Len(sub)] \notin {"/", " ", "\t", "\n", "\"", "'"}

\* C23 (as stated; violated under SpecPaths): rewritePathsInString leaves a text
\* unchanged when every occurrence of the source directory (other than the root
\* directory) in it is the inner or tail part of a longer path.
C23_InnerOccurrenceUntouched ==
    (rewrite.pc = "string"
       /\ normalizePath(rewrite.projectPath) # <<"/">>
       /\ \A last \in OccurrenceEnds(rewrite.value, normalizePath(rewrite.projectPath)) :
             InsideLongerPath(rewrite.value, last, normalizePath(rewrite.projectPath))) =>
        rewrite.result = rewrite.value

\* The parts of a path between its slashes, from position i on.
RECURSIVE PartsFrom(_, _)
PartsFrom(path, i) ==
    IF i > Len(path) THEN <<>>
    ELSE IF path[i] = "/" THEN PartsFrom(path, i + 1)
    ELSE LET j == CHOOSE k \in i..Len(path) :
                      /\ \A n \in i..k : path[n] # "/"
                      /\ k = Len(path) \/ path[k + 1] = "/"
         IN  <<SubSeq(path, i, j)>> \o PartsFrom(path, j + 1)

\* The path is in normal form: the root directory, or a slash before each of its
\* parts, none of which is empty, "." or "..".
IsNormal(path) ==
    /\ path # <<>>
    /\ path[1] = "/"
    /\ path = <<"/">> \/ path[Len(path)] # "/"
    /\ \A i \in 1..(Len(path) - 1) : ~(path[i] = "/" /\ path[i + 1] = "/")
    /\ \A i \in DOMAIN PartsFrom(path, 1) :
          PartsFrom(path, 1)[i] \notin {<<".">>, <<".", ".">>}

\* C24: normalizePath applied to what normalizePath returned for any string (the
\* empty string, relative paths, repeated slashes, .. segments that climb above the
\* root) returns it again; what normalizePath returns is in normal form.
C24_NormalizeIdempotent ==
    /\ rewrite.pc = "normal" => IsNormal(rewrite.result)
    /\ rewrite.pc = "normal2" =>
          /\ rewrite.result = normalizePath(rewrite.value)
          /\ IsNormal(rewrite.result)

\* C24 witness: ../a, a relative path that climbs above the root, was normalized
\* twice and is /a.
C24_Witness ==
    /\ rewrite.pc = "normal2"
    /\ rewrite.value = <<".", ".", "/", "a">>
    /\ rewrite.result = <<"/", "a">>

\* The positions of text at which an occurrence of sub that a path separator,
\* whitespace, a quote or the end of the text follows begins.
BoundedOccurrences(text, sub) ==
    {last - Len(sub) + 1 : last \in {l \in OccurrenceEnds(text, sub) :
                                        AtBoundary(text, l)}}

\* The text from position i on, with each such occurrence of `from` replaced by `to`.
RECURSIVE Rewritten(_, _, _, _)
Rewritten(text, from, to, i) ==
    IF i > Len(text) THEN <<>>
    ELSE (IF i \in BoundedOccurrences(text, from) THEN to
          ELSE IF \E j \in BoundedOccurrences(text, from) :
                     j < i /\ i < j + Len(from)
          THEN <<>>
          ELSE <<text[i]>>) \o Rewritten(text, from, to, i + 1)

\* C25 (as stated; violated under SpecStrings): rewritePathsInString returns the
\* text unchanged when the two directories are the same string, and otherwise the
\* text in which every occurrence of the source directory as it was given, followed
\* by a path separator, whitespace, a quote or the end of the text, is replaced by
\* the target directory as it was given.
C25_ReplacesEveryOccurrence ==
    rewrite.pc = "string" =>
        rewrite.result =
            IF rewrite.projectPath = rewrite.mountPath THEN rewrite.value
            ELSE Rewritten(rewrite.value, rewrite.projectPath, rewrite.mountPath, 1)

\* C25 (amended): rewritePathsInString returns the text unchanged when the two
\* directories have the same normal form, and otherwise the text in which every
\* occurrence of the normal form of the source directory, followed by a path
\* separator, whitespace, a quote or the end of the text, is replaced by the normal
\* form of the target directory.
C25_ReplacesEveryNormalizedOccurrence ==
    rewrite.pc = "string" =>
        LET from == normalizePath(rewrite.projectPath)
            to == normalizePath(rewrite.mountPath)
        IN  rewrite.result =
                IF from = to THEN rewrite.value
                ELSE Rewritten(rewrite.value, from, to, 1)

\* C25 witness: both occurrences of /a in /a/a, one before a path separator and one
\* at the end of the text, were replaced by /b.
C25_Witness ==
    /\ rewrite.pc = "string"
    /\ rewrite.value = <<"/", "a", "/", "a">>
    /\ rewrite.projectPath = <<"/", "a">>
    /\ rewrite.mountPath = <<"/", "b">>
    /\ rewrite.result = <<"/", "b", "/", "b">>

\* Session s is registered and its overlay is marked mounted.
IsMounted(s) == getSession(s) # 0 /\ heap[getSession(s)].mount.mounted

\* C26 (as stated; violated under SpecStrings): after the after-hook of a call of a
\* session that is absent or not mounted, title, output and metadata are what the
\* host handed over; after the after-hook of a call of a mounted session,
\* metadata.filepath, like output and title, is the text handed over with every
\* occurrence of the mount directory replaced by the project directory.
C26_AfterHookRewritesMetadata ==
    rewrite.pc = "after" =>
        LET from == normalizePath(rewrite.mountPath)
            to == normalizePath(rewrite.projectPath)
            expected == IF from = to THEN rewrite.value
                        ELSE Rewritten(rewrite.value, from, to, 1)
        IN  IF \E s \in SessionIds : IsMounted(s)
            THEN /\ rewrite.result.output = expected
                 /\ rewrite.result.title = expected
                 /\ rewrite.result.metadata.filepath = expected
            ELSE rewrite.result = ToolOutput(rewrite.value)

\* C27 (as stated; violated under SpecPlugin): once the host has delivered a call of
\* a tracked tool in an initialized session to the registered before- and after-hook
\* and both have returned, the call tracker was invoked: the call log of the session
\* holds a record, or a write of one is under way.
C27_RegisteredHooksTrack ==
    rewrite.pc = "pluginAfter" =>
        \A s \in SessionIds :
            \/ db[s] # <<>>
            \/ calls # <<>>
            \/ promises # <<>>
            \/ ends # EmptyBag
            \/ \E k \in Keys : toolCallStarts[k] # NoStartData

\* The after-handler e has no valid pending id: begin requested none, or the one it
\* requested resolved to the invalid id.
OnFallbackPath(e) ==
    \/ e.startData.pendingIdPromise = 0
    \/ /\ promises[e.startData.pendingIdPromise].state = "resolved"
       /\ promises[e.startData.pendingIdPromise].value <= 0

\* C28: an after-handler is inside record() only on the fallback path, and inside an
\* update only with the valid id its begin was given; a step of an after-handler
\* that changes the number of rows of a store is the settling of a record() call on
\* the fallback path, which appends exactly one terminal row carrying the arguments
\* of the call and leaves every other row as it was.
C28_EndInsertsOnlyOnFallback ==
    /\ [](\A e \in BagToSet(ends) :
            /\ e.pc = "record" => OnFallbackPath(e)
            /\ e.pc = "update" =>
                  /\ ~OnFallbackPath(e)
                  /\ e.pendingId = promises[e.startData.pendingIdPromise].value)
    /\ [][\A s \in SessionIds :
            (ends' # ends /\ Len(db'[s]) # Len(db[s])) =>
                \E e \in BagToSet(ends) :
                    /\ e.pc = "record"
                    /\ OnFallbackPath(e)
                    /\ ends' = ends (-) SetToBag({e})
                    /\ Len(db'[s]) = Len(db[s]) + 1
                    /\ SubSeq(db'[s], 1, Len(db[s])) = db[s]
                    /\ Terminal(db'[s][Len(db'[s])])
                    /\ db'[s][Len(db'[s])].parameters = e.startData.args
                    /\ db'[s][Len(db'[s])].name = e.tool]_vars

\* C28 witness: the first begin of a call found no session and requested no pending
\* id, and its end finished by record(); the pending id of the second begin resolved
\* to the invalid id, and its end finished by record() too: two terminal rows, one
\* promise.
C28_Witness ==
    /\ delivered[makeCallKey("s1", "c1")] = [begin |-> 2, end |-> 2]
    /\ endResult[makeCallKey("s1", "c1")] = "recorded"
    /\ Len(promises) = 1
    /\ promises[1].value = -1
    /\ Len(db["s1"]) = 2
    /\ \A i \in 1..2 : Terminal(db["s1"][i])
    /\ ends = EmptyBag

\* C29: an id is in the initializing set only while an initialization of it is in
\* progress, and the step in which an initialization ends, at whatever point,
\* leaves its id out of the set.
C29_GuardRemovedWhenInitEnds ==
    /\ [](\A s \in SessionIds : s \in initializingSessions => InitsOf(s) # {})
    /\ [][\A h \in BagToSet(handlers) :
            (h.kind = "init" /\ CopiesIn(h, handlers') < CopiesIn(h, handlers)
                /\ \A g \in BagToSet(handlers') : g.kind = "init" => g.sid # h.sid) =>
                h.sid \notin initializingSessions']_vars

\* C29 witness: the initialization of s1 failed at the creation of its directories
\* (no Session was registered), nothing is in progress and the initializing set is
\* empty.
C29_Witness ==
    /\ hostEvents["s1"] = [created |-> 1, status |-> 0, deleted |-> 0]
    /\ handlers = EmptyBag
    /\ getSession("s1") = 0
    /\ initializingSessions = {}

\* The mount step of the initialization h is over and left no overlay mounted: it
\* was skipped, or mountOverlay threw and its message is in MountInfo.error.
MountResolvedUnmounted(h) ==
    /\ ~heap[h.context].mount.mounted
    /\ (config.autoMount /\ IS_LINUX) => heap[h.context].mount.error # ""

UnmountOverlayEnds(h) ==
    /\ h.pc \in {"unmount", "umount"}
    /\ CopiesIn(h, handlers') < CopiesIn(h, handlers)
    /\ CopiesIn([h EXCEPT !.pc = "umount"], handlers')
          <= CopiesIn([h EXCEPT !.pc = "umount"], handlers) - (IF h.pc = "umount" THEN 1 ELSE 0)

\* C31: in every MountInfo pid is set only while mounted is true; a step in which
\* mountOverlay succeeds leaves error cleared and pid set; and a step in which
\* unmountOverlay, called on a mounted MountInfo, ends leaves mounted false and pid
\* unset.
C31_PidOnlyWhileMounted ==
    /\ [](\A i \in DOMAIN heap : heap[i].mount.pid # 0 => heap[i].mount.mounted)
    /\ [][\A h \in BagToSet(handlers) :
            /\ (h.pc = "verified" /\ CopiesIn(h, handlers') < CopiesIn(h, handlers)
                   /\ cli' = cli) =>
                  /\ heap'[h.context].mount.mounted
                  /\ heap'[h.context].mount.pid = h.proc
                  /\ heap'[h.context].mount.error = ""
            /\ UnmountOverlayEnds(h) =>
                  /\ ~heap'[h.context].mount.mounted
                  /\ heap'[h.context].mount.pid = 0]_vars

\* C31 witness: a first mountOverlay on the MountInfo of s1 failed and left its
\* message in error; a second one succeeded: mounted, pid set, error cleared.
C31_Witness ==
    /\ cli["s1"].mountOverlay = 2
    /\ cli["s1"].raised = 1
    /\ getSession("s1") # 0
    /\ heap[getSession("s1")].mount.mounted
    /\ heap[getSession("s1")].mount.pid # 0
    /\ heap[getSession("s1")].mount.error = ""
    /\ handlers = EmptyBag

\* C32: when mountOverlay resumes with the result of verifyMount, the mount fails
\* (mountOverlay throws and the message is in MountInfo.error) if the mount process
\* had exited with a code other than 0, if the mount point was not readable, or if
\* the mount command ran and its output did not hold the mount path; and it
\* succeeds if the process was running or had exited with code 0, the mount point
\* was readable and the mount path was in the mount table or the mount command
\* could not be run.
C32_VerificationOutcome ==
    [][\A h \in BagToSet(handlers) :
          (h.pc = "verified" /\ CopiesIn(h, handlers') < CopiesIn(h, handlers)) =>
              LET o == h.observed
                  throws == cli'[h.sid].raised > cli[h.sid].raised
              IN  /\ (\/ o.exitCode = "nonzero"
                      \/ o.accessible = "no"
                      \/ o.mountTable = "absent") =>
                        /\ throws
                        /\ heap'[h.context].mount.error # ""
                        /\ heap'[h.context].mount.mounted = heap[h.context].mount.mounted
                  /\ (/\ o.exitCode \in {"null", "zero"}
                      /\ o.accessible = "yes"
                      /\ o.mountTable \in {"listed", "failed"}) =>
                        /\ ~throws
                        /\ heap'[h.context].mount.mounted]_vars

\* C32 witness: the mount command ran and its output did not hold the mount path of
\* s1: mountOverlay threw, the message is in MountInfo.error and the overlay is not
\* mounted.
C32_Witness ==
    /\ getSession("s1") # 0
    /\ heap[getSession("s1")].mount.error = "Mount point exists but is not a FUSE mount"
    /\ ~heap[getSession("s1")].mount.mounted
    /\ cli["s1"].raised = 1
    /\ handlers = EmptyBag

\* unmountOverlay is called on a mounted MountInfo of session s in this step.
UnmountOverlayStarts(s) == cli'[s].unmounts > cli[s].unmounts

\* C33: unmountOverlay on a mounted MountInfo kills the tracked process of the
\* session, if there is one, and removes it from the process table; it tries umount
\* exactly when fusermount failed (could not be spawned, or exited with a code other
\* than 0); it never throws; and when it ends, whatever the commands did, mounted is
\* false and pid is unset - also when neither command could be spawned.
C33_UnmountBestEffort ==
    /\ [](\A s \in SessionIds : cli[s].umounts = cli[s].primaryFailed)
    /\ [][\A s \in SessionIds :
            UnmountOverlayStarts(s) =>
                /\ mountProcesses'[s] = 0
                /\ mountProcesses[s] # 0 =>
                      /\ cli'[s].kills = cli[s].kills + 1
                      /\ <<s, mountProcesses[s]>> \notin alive'
                /\ cli'[s].raised = cli[s].raised]_vars
    /\ [][\A h \in BagToSet(handlers) :
            UnmountOverlayEnds(h) =>
                /\ ~heap'[h.context].mount.mounted
                /\ heap'[h.context].mount.pid = 0
                /\ cli'[h.sid].raised = cli[h.sid].raised]_vars
    /\ [][\A g \in BagToSet(handlers') :
            (g.pc = "unmounted" /\ CopiesIn(g, handlers') > CopiesIn(g, handlers)) =>
                /\ ~heap'[g.context].mount.mounted
                /\ heap'[g.context].mount.pid = 0]_vars

\* C33 witness: unmountOverlay on the mounted MountInfo of s1 killed the mount
\* process, fusermount failed, umount was tried, and the call ended: mounted is false
\* and pid unset.
C33_Witness ==
    /\ cli["s1"].kills = 1
    /\ cli["s1"].unmounts = 1
    /\ cli["s1"].primaryFailed = 1
    /\ cli["s1"].umounts = 1
    /\ mountProcesses["s1"] = 0
    /\ getSession("s1") # 0
    /\ ~heap[getSession("s1")].mount.mounted
    /\ heap[getSession("s1")].mount.pid = 0
    /\ handlers = EmptyBag

(***************************************************************************)
(* SpecRetry: withRetry inside openDatabase, one attempt at a time.  The   *)
(* session has a context without a store handle; callers open the store;   *)
(* every attempt of AgentFS.open settles with a handle or with a thrown    *)
(* value, and the loop of withRetry resumes on it.                         *)
(***************************************************************************)
MAX_RETRIES == 5
INITIAL_DELAY_MS == 100

RECURSIVE Pow2(_)
Pow2(n) == IF n = 0 THEN 1 ELSE 2 * Pow2(n - 1)

\* Values AgentFS.open can throw: Error objects with a message (a sequence of
\* words), and a value that is not an Error.
Thrown ==
    { [instanceOfError |-> TRUE, message |-> m] :
        m \in { <<"SQLITE_BUSY:", "database", "is", "locked">>,
                <<"Database", "is", "busy">>,
                <<"database", "disk", "image", "is", "malformed">> } }
    \cup { [instanceOfError |-> FALSE, message |-> <<"database", "is", "locked">>] }

\* String.prototype.toLowerCase, word by word.
toLowerCase(message) ==
    [k \in DOMAIN message |->
        CASE message[k] = "SQLITE_BUSY:" -> "sqlite_busy:"
          [] message[k] = "Database" -> "database"
          [] OTHER -> message[k]]

\* String.prototype.includes over words.
includes(message, part) ==
    \E k \in 0..(Len(message) - Len(part)) :
        SubSeq(message, k + 1, k + Len(part)) = part

\* An isRetryable that holds of every thrown value (a seeded fault).
RetriesEveryError(error) == TRUE

\* isDatabaseBusy(error)
isDatabaseBusy(error) ==
    IF error.instanceOfError
    THEN LET msg == toLowerCase(error.message) IN
         \/ includes(msg, <<"database", "is", "busy">>)
         \/ includes(msg, <<"database", "is", "locked">>)
    ELSE FALSE

\* The value an attempt settled with: <<>> while it is pending, <<"ok">> for a
\* handle, <<"thrown", error>> for a rejection.
Pending == <<>>
Fulfilled == <<"ok">>
Rejected(error) == <<"thrown", error>>

\* AgentFS.open of the current attempt settles.
OpenSettled(i) ==
    /\ i \in DOMAIN calls
    /\ calls[i].pc = "open"
    /\ calls[i].settled = Pending
    /\ \E outcome \in {Fulfilled} \cup { Rejected(e) : e \in Thrown } :
        calls' = [calls EXCEPT ![i].settled = outcome]
    /\ UNCHANGED <<sessions, heap, handles, db, ncalls>>
    /\ UNCHANGED <<trackVars, hookVars>>

\* The catch block of withRetry: rethrow, or the delay to sleep before the next
\* attempt.
withRetryCatch(c, error) ==
    IF ~isDatabaseBusy(error) \/ c.attempt = MAX_RETRIES - 1
    THEN [c EXCEPT !.pc = "threw"]
    ELSE [c EXCEPT !.pc = "backoff",
                   !.delays = Append(@, INITIAL_DELAY_MS * Pow2(c.attempt))]

\* withRetry resumes after `await fn()`: it returns the handle to openDatabase,
\* which goes on to the pragma, or it runs the catch block.
OpenAttemptDone(i) ==
    /\ i \in DOMAIN calls
    /\ calls[i].pc = "open"
    /\ calls[i].settled # Pending
    /\ IF calls[i].settled = Fulfilled
       THEN /\ handles' = Append(handles, NewHandle(calls[i].sid))
            /\ calls' = Resumed(i, [calls[i] EXCEPT !.agent = Len(handles) + 1,
                                                    !.pc = "pragma"])
       ELSE /\ calls' = Resumed(i, withRetryCatch(calls[i], calls[i].settled[2]))
            /\ UNCHANGED handles
    /\ UNCHANGED <<sessions, heap, db, ncalls>>
    /\ UNCHANGED <<trackVars, hookVars>>

\* withRetry resumes after `await Bun.sleep(delay)` and starts the next attempt.
BackoffDone(i) ==
    /\ i \in DOMAIN calls
    /\ calls[i].pc = "backoff"
    /\ calls' = [calls EXCEPT ![i] = [@ EXCEPT !.pc = "open",
                                               !.attempt = @ + 1,
                                               !.settled = Pending]]
    /\ UNCHANGED <<sessions, heap, handles, db, ncalls>>
    /\ UNCHANGED <<trackVars, hookVars>>

\* The session after createSessionContext: a context without a store handle.
InitRetry ==
    /\ sessions = [s \in SessionIds |-> 1]
    /\ heap = <<NewContext("s1")>>
    /\ handles = <<>>
    /\ calls = <<>>
    /\ ncalls = 0
    /\ db = [s \in SessionIds |-> <<>>]
    /\ TrackInit
    /\ HookInit
    /\ config = DefaultConfig

NextRetry ==
    \/ \E s \in SessionIds : InvokeOpenDatabase(s)
    \/ \E i \in DOMAIN calls : OpenSettled(i)
    \/ \E i \in DOMAIN calls : OpenAttemptDone(i)
    \/ \E i \in DOMAIN calls : BackoffDone(i)
    \/ \E i \in DOMAIN calls : PragmaDone(i)

SpecRetry == InitRetry /\ [][NextRetry]_vars

\* The thrown values that say the database is busy or locked.
BusyOrLocked ==
    { [instanceOfError |-> TRUE, message |-> <<"SQLITE_BUSY:", "database", "is", "locked">>],
      [instanceOfError |-> TRUE, message |-> <<"Database", "is", "busy">>] }

\* The delays withRetry has slept before the attempt numbered `attempt`.
Backoffs(attempt) == [k \in 1..attempt |-> INITIAL_DELAY_MS * Pow2(k - 1)]

\* Call i of the current state is the one this step resumes.
ResumedCall(i) ==
    \/ Len(calls') < Len(calls) /\ calls' = RemoveAt(calls, i)
    \/ Len(calls') = Len(calls) /\ calls'[i] # calls[i]
                                /\ \A j \in DOMAIN calls : j # i => calls'[j] = calls[j]

\* C34: opening the store makes at most 5 attempts, sleeps 100 ms doubled per
\* attempt between them, goes on with the handle of the first attempt that
\* succeeds, rethrows a thrown value that is not a busy/locked error at once,
\* sleeps and tries again on a busy/locked error before the fifth attempt, and
\* rethrows the busy/locked error of the fifth attempt to the caller.
C34_BoundedRetry ==
    /\ [](\A i \in DOMAIN calls :
            /\ calls[i].attempt < MAX_RETRIES
            /\ calls[i].pc \in {"open", "pragma"}
                    => calls[i].delays = Backoffs(calls[i].attempt)
            /\ calls[i].pc = "backoff"
                    => calls[i].delays = Backoffs(calls[i].attempt + 1))
    /\ [][\A i \in DOMAIN calls :
            (calls[i].pc = "open" /\ calls[i].settled # Pending /\ ResumedCall(i)) =>
              LET c == calls[i] IN
              IF c.settled = Fulfilled
              THEN /\ Len(calls') = Len(calls)
                   /\ calls'[i].pc = "pragma"
                   /\ Len(handles') = Len(handles) + 1
              ELSE IF c.settled[2] \in BusyOrLocked /\ c.attempt < 4
              THEN /\ Len(calls') = Len(calls)
                   /\ calls'[i].pc = "backoff"
                   /\ calls'[i].attempt = c.attempt
                   /\ handles' = handles
              ELSE /\ Len(calls') < Len(calls)
                   /\ handles' = handles
                   /\ heap' = heap]_vars
    /\ [][\A i \in DOMAIN calls :
            (calls[i].pc = "backoff" /\ ResumedCall(i)) =>
                /\ calls'[i].pc = "open"
                /\ calls'[i].attempt = calls[i].attempt + 1
                /\ calls'[i].settled = Pending]_vars

\* The fifth attempt has settled with a busy error after delays of 100, 200,
\* 400 and 800 ms.
C34_Witness ==
    \E i \in DOMAIN calls :
        /\ calls[i].pc = "open"
        /\ calls[i].attempt = 4
        /\ calls[i].delays = <<100, 200, 400, 800>>
        /\ calls[i].settled # Pending
        /\ calls[i].settled # Fulfilled
        /\ calls[i].settled[2] \in BusyOrLocked

(***************************************************************************)
(* SpecRelative: rewritePathsInOutput and the after-hook of a mounted      *)
(* session applied to tool output written as at most MaxWords words: "../" *)
(* and "./" prefixes, the session's own ".agentfs/mounts/<id>" and that of *)
(* another session, the absolute mount directory, a slash, a file name and *)
(* a space.  The mount directory lies under a home directory, directly     *)
(* under the root directory (a home directory of "/"), or outside every    *)
(* ".agentfs/mounts".                                                      *)
(***************************************************************************)
MaxWords == 4

Words == {"parent", "current", "marker", "other", "slash", "file", "space", "mount"}

MountRoots ==
    { <<"/", "h", "/">> \o AgentFSMounts \o <<"s">>,
      <<"/">> \o AgentFSMounts \o <<"s">>,
      <<"/", "m">> }

ProjectRoot == <<"/", "p">>

\* The characters of a word of tool output.
WordText(w, mountPath) ==
    CASE w = "parent" -> <<".", ".", "/">>
      [] w = "current" -> <<".", "/">>
      [] w = "marker" -> AgentFSMounts \o <<"s">>
      [] w = "other" -> AgentFSMounts \o <<"t">>
      [] w = "slash" -> <<"/">>
      [] w = "file" -> <<"a">>
      [] w = "space" -> <<" ">>
      [] w = "mount" -> mountPath
      [] w = "project" -> ProjectRoot

RECURSIVE Flatten(_, _)
Flatten(words, mountPath) ==
    IF words = <<>> THEN <<>>
    ELSE WordText(Head(words), mountPath) \o Flatten(Tail(words), mountPath)

\* Tool output at rest: its words, its text, the directories of the session, and
\* no result yet.
OutputInput(words, mountPath) ==
    [pc |-> "input", words |-> words, value |-> Flatten(words, mountPath),
     projectPath |-> ProjectRoot, mountPath |-> mountPath, result |-> <<>>]

\* rewritePathsInOutput(text, mountPath, projectPath) is applied to the text.
RewritePathsInOutput ==
    /\ rewrite.pc = "input"
    /\ rewrite' = [rewrite EXCEPT
            !.pc = "output",
            !.result = rewritePathsInOutput(rewrite.value, rewrite.mountPath,
                                            rewrite.projectPath)]
    /\ UNCHANGED <<clientVars, trackVars>>
    /\ UNCHANGED <<initializingSessions, handlers, mountProcesses, cli, hostEvents, kv,
                   alive>>

\* The tool outputs: an absolute mount directory begins the text or follows a
\* space, and a marker does not follow a slash (it follows "../", "./", a file
\* name or a space, or begins the text).
OutputWords ==
    { words \in UNION {[1..n -> Words] : n \in 0..MaxWords} :
        \A k \in 2..Len(words) :
            /\ words[k] = "mount" => words[k - 1] = "space"
            /\ words[k] \in {"marker", "other"} => words[k - 1] # "slash" }

InitRelative ==
    /\ SessionMounted
    /\ TrackInit
    /\ config = DefaultConfig
    /\ rewrite \in {OutputInput(words, mountPath) :
                        words \in OutputWords, mountPath \in MountRoots}

NextRelative ==
    \/ RewritePathsInOutput
    \/ \E s \in SessionIds : PathRewriteAfter(s)

SpecRelative == InitRelative /\ [][NextRelative]_vars

\* The absolute rewrite, word by word: the mount directory becomes the project
\* directory where a slash, a space or the end of the text follows it.
RECURSIVE AbsoluteWords(_)
AbsoluteWords(words) ==
    IF words = <<>> THEN <<>>
    ELSE IF /\ Head(words) = "mount"
            /\ Len(words) = 1 \/ words[2] \in {"slash", "space", "mount"}
    THEN <<"project">> \o AbsoluteWords(Tail(words))
    ELSE <<Head(words)>> \o AbsoluteWords(Tail(words))

\* The number of "../" words that the words begin with.
RECURSIVE LeadingParentWords(_)
LeadingParentWords(words) ==
    IF words # <<>> /\ Head(words) = "parent"
    THEN 1 + LeadingParentWords(Tail(words))
    ELSE 0

\* One or more "../" followed by the session's marker and a slash become "./".
RECURSIVE CollapseParents(_)
CollapseParents(words) ==
    IF words = <<>> THEN <<>>
    ELSE LET k == LeadingParentWords(words) IN
         IF k >= 1 /\ Len(words) >= k + 2
                   /\ words[k + 1] = "marker" /\ words[k + 2] = "slash"
         THEN <<"current">> \o CollapseParents(SubSeq(words, k + 3, Len(words)))
         ELSE <<Head(words)>> \o CollapseParents(Tail(words))

\* "./" followed by the session's marker and a slash becomes "./".
RECURSIVE CollapseCurrent(_)
CollapseCurrent(words) ==
    IF words = <<>> THEN <<>>
    ELSE IF Len(words) >= 3 /\ SubSeq(words, 1, 3) = <<"current", "marker", "slash">>
    THEN <<"current">> \o CollapseCurrent(SubSeq(words, 4, Len(words)))
    ELSE <<Head(words)>> \o CollapseCurrent(Tail(words))

\* C35 (as stated; violated under SpecRelative): rewritePathsInOutput rewrites the
\* absolute mount directory first and collapses the relative references second:
\* every run of "../" followed by the session's marker and a slash, and every "./"
\* followed by the marker and a slash, is "./" in the result, a reference to another
\* session's marker is unchanged, and with a mount directory that holds no marker
\* the result is that of rewritePathsInString.
C35_RelativeCollapse ==
    rewrite.pc = "output" =>
        IF extractAgentFSPattern(rewrite.mountPath) = <<>>
        THEN rewrite.result = rewritePathsInString(rewrite.value, rewrite.mountPath,
                                                   rewrite.projectPath)
        ELSE rewrite.result =
                Flatten(CollapseCurrent(CollapseParents(AbsoluteWords(rewrite.words))),
                        rewrite.mountPath)

\* The same for a text that is one relative reference to a file of the session:
\* "../", the marker, a slash and the file name become "./" and the file name.
C35_RelativeReferenceCollapsed ==
    (rewrite.pc = "output" /\ rewrite.words = <<"parent", "marker", "slash", "file">>
        /\ extractAgentFSPattern(rewrite.mountPath) # <<>>) =>
        rewrite.result = <<".", "/", "a">>

\* The same with the mount directory under a home directory other than "/".
C35_CollapseUnderHome ==
    (rewrite.pc = "output" /\ rewrite.mountPath # <<"/">> \o AgentFSMounts \o <<"s">>) =>
        C35_RelativeCollapse

\* C36 (as stated; violated under SpecSession): no overlay mount outlives its
\* registry entry: for a session id that is absent from the registry and is not
\* initializing, no mount process is tracked and no MountInfo of the id has
\* mounted = true.
C36_NoMountOutlivesRegistry ==
    \A s \in SessionIds :
        (getSession(s) = 0 /\ s \notin initializingSessions) =>
            /\ mountProcesses[s] = 0
            /\ \A c \in DOMAIN heap :
                  heap[c].sessionId = s => ~heap[c].mount.mounted

\* The same for the MountInfo alone: no context of an absent, not initializing
\* session is mounted.
C36_NoMountedOrphan ==
    \A s \in SessionIds :
        (getSession(s) = 0 /\ s \notin initializingSessions) =>
            \A c \in DOMAIN heap : heap[c].sessionId = s => ~heap[c].mount.mounted

\* A mount attempt for session s is in progress: a call of mountOverlay has not
\* returned or thrown yet.
MountInProgress(s) ==
    \E h \in BagToSet(handlers) :
        h.sid = s /\ h.pc \in {"which", "cliInit", "verify", "verified"}

\* C37 (as stated; violated under SpecOverlay): the process table holds a process
\* for a session id only while a MountInfo of the id has mounted = true or a mount
\* attempt for the id is in progress; a mount attempt that fails verification
\* leaves no process in the table.
C37_TrackedOnlyWhileMounted ==
    \A s \in SessionIds :
        mountProcesses[s] # 0 =>
            \/ MountInProgress(s)
            \/ \E c \in DOMAIN heap : heap[c].sessionId = s /\ heap[c].mount.mounted

(***************************************************************************)
(* SpecTeardown: the session.deleted branch of the session event handler   *)
(* on an initialized session: its store is open (initialized without a     *)
(* mount), or its overlay is mounted and no store was opened.  The host    *)
(* delivers up to MaxTeardowns session.deleted events for the id, their    *)
(* awaits interleaved in every order; every external call may fail.       *)
(* closeSession runs after closeDatabase has unset the agent and never     *)
(* has a handle to close.                                                  *)
(***************************************************************************)
MaxTeardowns == 3

InitTeardown ==
    /\ \/ SessionOpen /\ NoSessionEvents
       \/ SessionMounted
    /\ TrackInit
    /\ rewrite = PathInput(<<>>, <<"/">>, <<"/">>)
    /\ config = DefaultConfig

NextTeardown ==
    \/ \E s \in SessionIds : SessionEnds < MaxTeardowns /\ SessionDeleted(s)
    \/ \E h \in BagToSet(handlers) : CleanupEndedAtDone(h)
    \/ \E h \in BagToSet(handlers) : CleanupCloseDbDone(h)
    \/ \E h \in BagToSet(handlers) : CleanupDbClosed(h)
    \/ \E h \in BagToSet(handlers) : CleanupUnmountDone(h)
    \/ \E h \in BagToSet(handlers) : CleanupUmountDone(h)
    \/ \E h \in BagToSet(handlers) : CleanupUnmounted(h)

SpecTeardown == InitTeardown /\ [][NextTeardown]_vars

\* C38 (as stated; violated under SpecTeardown): close is invoked at most once on
\* every store handle that was opened.
C38_CloseAtMostOnce ==
    \A a \in DOMAIN handles : handles[a].closes <= 1

(***************************************************************************)
(* SpecKeys: the tracker on an open session s1 with the default policy and *)
(* a host whose ids contain the separator of makeCallKey.  The host        *)
(* delivers before/after events for the two pairs of KeyPairs in any order *)
(* and any number; every store operation may fail.                         *)
(***************************************************************************)
NextKeys ==
    \/ \E p \in KeyPairs : Begins < MaxBegins /\ BeforeHandler(p[1], p[2])
    \/ \E p \in KeyPairs, o \in HostOutputs :
          Ends < MaxEnds /\ AfterHandler(p[1], p[2], o)
    \/ \E p \in DOMAIN promises : StartSettle(p)
    \/ \E e \in BagToSet(ends) : AfterGotId(e)
    \/ \E e \in BagToSet(ends) : AfterUpdateSettle(e)
    \/ \E e \in BagToSet(ends) : AfterRecordSettle(e)

SpecKeys == InitPairs /\ [][NextKeys]_vars

\* C39 (as stated; violated under SpecKeys): makeCallKey maps different
\* (sessionID, callID) pairs to different keys, also for ids that contain ":",
\* so the entry of toolCallStarts under the key of a pair was stored by a begin
\* for that pair (it holds the args of that call).
C39_KeyInjective ==
    /\ \A p \in KeyPairs, q \in KeyPairs :
          makeCallKey(p[1], p[2]) = makeCallKey(q[1], q[2]) => p = q
    /\ \A p \in KeyPairs :
          toolCallStarts[makeCallKey(p[1], p[2])].present =>
              toolCallStarts[makeCallKey(p[1], p[2])].args = ArgsOf(p[2])

\* The entry half alone: the entry under the key of a pair holds the args of the
\* call of that pair.
C39_EntryOfOwnPair ==
    \A p \in KeyPairs :
        toolCallStarts[makeCallKey(p[1], p[2])].present =>
            toolCallStarts[makeCallKey(p[1], p[2])].args = ArgsOf(p[2])

\* The initialization h ends in this step because directory creation, the store
\* open or the pragma on the new handle failed (on success each of these steps
\* goes on to the next one).
InitFails(h) ==
    /\ h.kind = "init"
    /\ h.pc \in {"mkdir", "open", "pragma"}
    /\ CopiesIn(h, handlers') < CopiesIn(h, handlers)

\* C40 (as stated; violated under SpecSession): an initialization that ends in
\* failure leaves no Session of the id in the registry, so that a later
\* session.created or session.status event for the id is not ignored.
C40_FailedInitLeavesNoSession ==
    [][\A h \in BagToSet(handlers) :
          InitFails(h) =>
              /\ getSession(h.sid)' = 0
              /\ h.sid \notin initializingSessions']_vars

====
